---------------------------- MODULE Spec2Model ----------------------------
(***************************************************************************)
(* Model of the manual ABI calldata encoding layer of hylos-tank:          *)
(* EncodingUtils (src/utils/encoding.js), BridgeCalldataBuilder,           *)
(* BridgeService and GovernanceService.                                    *)
(*                                                                         *)
(* A JavaScript string is a sequence of UTF-16 code units (naturals), a    *)
(* byte array a sequence of naturals below 256, and an arbitrary-precision *)
(* integer a sign with a little-endian byte magnitude, so that 256-bit     *)
(* values are computed exactly.  An operation that may throw yields        *)
(* [ok, v, err]: its value v when ok, the error err otherwise.             *)
(***************************************************************************)
EXTENDS Integers, Sequences, FiniteSets, TLC

VARIABLES
    fn, args, ret,                            \* the call in progress
    isInitialized, wallet, estimateData,      \* BridgeService
    delegationInitialized, delegationWallet,  \* DelegationService
    sentTx,                                   \* the transaction handed to the wallet
    returned,                                 \* what each builder call returned before
    features,                                 \* HeliosMain.executeAllFeatures: position and transactions
    retry,                                    \* AsyncUtils.retry: the call in progress
    nested,                                   \* HeliosMain.bridge / delegateToRandomValidator in progress
    executor,                                 \* FeatureExecutor.executeBridge in progress
    main,                                     \* main(): the loop and the CycleManager
    voting                                    \* GovernanceService.waitAndVote in progress

bridgeVars == <<isInitialized, wallet, estimateData>>
delegationVars == <<delegationInitialized, delegationWallet, sentTx>>
historyVars == <<returned>>
automationVars == <<features, retry, nested, executor, main, voting>>
otherVars == <<historyVars, automationVars>>
serviceVars == <<bridgeVars, delegationVars, otherVars>>
vars == <<fn, args, ret, serviceVars>>

----------------------------------------------------------------------------
(* Results and exceptions *)

Ok(v) == [ok |-> TRUE, v |-> v, err |-> ""]
Err(e) == [ok |-> FALSE, v |-> << >>, err |-> e]

\* the value of x handed to F: x is evaluated once, before F
Let(x, F(_)) == CHOOSE r \in {F(y) : y \in {x}} : TRUE

\* r's value handed to F, or the exception r stands for, passed on
Then(r, F(_)) == Let(r, LAMBDA q : IF q.ok THEN F(q.v) ELSE q)

----------------------------------------------------------------------------
(* Characters and strings *)

AsciiTable ==
    << " ", "!", "\"", "#", "$", "%", "&", "'", "(", ")", "*", "+", ",", "-", ".", "/",
       "0", "1", "2", "3", "4", "5", "6", "7", "8", "9", ":", ";", "<", "=", ">", "?",
       "@", "A", "B", "C", "D", "E", "F", "G", "H", "I", "J", "K", "L", "M", "N", "O",
       "P", "Q", "R", "S", "T", "U", "V", "W", "X", "Y", "Z", "[", "\\", "]", "^", "_",
       "grave", "a", "b", "c", "d", "e", "f", "g", "h", "i", "j", "k", "l", "m", "n", "o",
       "p", "q", "r", "s", "t", "u", "v", "w", "x", "y", "z", "{", "|", "}", "~" >>

\* The code unit of each printable ASCII character (the table holds a word
\* in the place of the grave accent, code unit 96).
OrdTable == [c \in {AsciiTable[i] : i \in 1..Len(AsciiTable)} |->
                31 + (CHOOSE i \in 1..Len(AsciiTable) : AsciiTable[i] = c)]

Ord(c) == OrdTable[c]

\* The JavaScript string written as a tuple of one-character strings.
S(t) == [i \in 1..Len(t) |-> Ord(t[i])]

Rep(x, n) == [i \in 1..n |-> x]

Reverse(s) == [i \in 1..Len(s) |-> s[Len(s) + 1 - i]]

\* String.prototype.slice(k) for 0 <= k.
Slice(s, k) == IF k >= Len(s) THEN << >> ELSE SubSeq(s, k + 1, Len(s))

\* String.prototype.startsWith
StartsWith(s, p) == Len(s) >= Len(p) /\ SubSeq(s, 1, Len(p)) = p

AllChars(s, P(_)) == \A i \in 1..Len(s) : P(s[i])

\* "0".."9" are the code units 48..57, "A".."F" 65..70 and "a".."f" 97..102
IsDigit(c) == c >= 48 /\ c <= 57
IsLowerHex(c) == c >= 97 /\ c <= 102
IsUpperHex(c) == c >= 65 /\ c <= 70
IsHexChar(c) == IsDigit(c) \/ IsLowerHex(c) \/ IsUpperHex(c)
IsOctChar(c) == c >= 48 /\ c <= 55
IsBinChar(c) == c \in {48, 49}

\* The value of a digit character of radix up to sixteen.
HexVal(c) == IF c <= 57 THEN c - 48 ELSE IF c >= 97 THEN c - 87 ELSE c - 55

\* The lower-case hexadecimal digit character of a value below 16.
HexChar(v) == IF v < 10 THEN 48 + v ELSE 87 + v

\* "0x"
Prefix0x == <<48, 120>>

ToLower(s) == [i \in 1..Len(s) |-> IF IsUpperHex(s[i]) THEN s[i] + 32 ELSE s[i]]
ToUpper(s) == [i \in 1..Len(s) |-> IF IsLowerHex(s[i]) THEN s[i] - 32 ELSE s[i]]

IsWhiteSpace(c) == c \in {9, 10, 11, 12, 13, 32}

RECURSIVE TrimLeft(_)
TrimLeft(s) == IF s # << >> /\ IsWhiteSpace(s[1]) THEN TrimLeft(Tail(s)) ELSE s

\* String.prototype.trim, as StringToBigInt and StringToNumber apply it
Trim(s) == Reverse(TrimLeft(Reverse(TrimLeft(s))))

----------------------------------------------------------------------------
(* Arbitrary-precision integers: [neg, mag], mag little-endian bytes with  *)
(* no most-significant zero byte; zero is [neg |-> FALSE, mag |-> <<>>].   *)

RECURSIVE MulAdd(_, _, _)
\* mag * m + carry
MulAdd(mag, m, carry) ==
    IF mag = << >>
    THEN IF carry = 0 THEN << >>
         ELSE <<carry % 256>> \o MulAdd(<< >>, m, carry \div 256)
    ELSE <<((mag[1] * m) + carry) % 256>>
         \o MulAdd(Tail(mag), m, ((mag[1] * m) + carry) \div 256)

RECURSIVE Canon(_)
\* drops the most-significant zero bytes
Canon(mag) ==
    IF mag = << >> THEN << >>
    ELSE IF mag[Len(mag)] = 0 THEN Canon(SubSeq(mag, 1, Len(mag) - 1))
    ELSE mag

RECURSIVE DigitsToNat(_, _, _)
\* the number a few digits denote in the given radix
DigitsToNat(s, radix, acc) ==
    IF s = << >> THEN acc ELSE DigitsToNat(Tail(s), radix, (acc * radix) + HexVal(s[1]))

RECURSIVE Power(_, _)
Power(radix, n) == IF n = 0 THEN 1 ELSE radix * Power(radix, n - 1)

\* the digits are taken five at a time
ChunkLen(s) == IF Len(s) < 5 THEN Len(s) ELSE 5

RECURSIVE DigitsToMag(_, _, _)
\* the magnitude of a digit string in the given radix, most significant first
DigitsToMag(s, radix, acc) ==
    IF s = << >> THEN Canon(acc)
    ELSE Let(MulAdd(acc, Power(radix, ChunkLen(s)),
                    DigitsToNat(SubSeq(s, 1, ChunkLen(s)), radix, 0)),
             LAMBDA a : DigitsToMag(Slice(s, ChunkLen(s)), radix, a))

RECURSIVE NatToMag(_)
NatToMag(n) == IF n = 0 THEN << >> ELSE <<n % 256>> \o NatToMag(n \div 256)

Big(neg, mag) == [neg |-> neg /\ mag # << >>, mag |-> mag]

IntToBig(i) == IF i < 0 THEN Big(TRUE, NatToMag(-i)) ELSE Big(FALSE, NatToMag(i))

BigNegate(b) == Big(~b.neg, b.mag)

BigIsZero(b) == b.mag = << >>

\* b < 0 and b <= 0, the comparisons of a BigInt with the number 0
BigLtZero(b) == b.neg
BigLeqZero(b) == b.neg \/ BigIsZero(b)

\* the nibbles of big-endian bytes as lower-case hexadecimal digits
Nibbles(be) ==
    [i \in 1..(2 * Len(be)) |->
        IF i % 2 = 1 THEN HexChar(be[(i + 1) \div 2] \div 16)
        ELSE HexChar(be[i \div 2] % 16)]

\* BigInt.prototype.toString(16) of a non-negative value
BigToHex(b) ==
    IF b.mag = << >> THEN <<48>>
    ELSE IF b.mag[Len(b.mag)] < 16 THEN Tail(Nibbles(Reverse(b.mag)))
    ELSE Nibbles(Reverse(b.mag))

RECURSIVE DivMod(_, _, _, _)
\* long division of a big-endian magnitude by d: <<quotient (big-endian), remainder>>
DivMod(be, d, rem, quot) ==
    IF be = << >> THEN <<quot, rem>>
    ELSE Let(((rem * 256) + be[1]), LAMBDA x :
             DivMod(Tail(be), d, x % d, Append(quot, x \div d)))

RECURSIVE NatToDec(_)
\* the decimal digits of a natural number; none for zero
NatToDec(n) == IF n = 0 THEN << >> ELSE Append(NatToDec(n \div 10), 48 + (n % 10))

\* five decimal digits of n < 100000, with leading zeros
FiveDigits(n) == Rep(48, 5 - Len(NatToDec(n))) \o NatToDec(n)

RECURSIVE MagToDec(_)
\* the decimal digits of a magnitude, five at a time from the least significant
MagToDec(mag) ==
    IF mag = << >> THEN << >>
    ELSE Let(DivMod(Reverse(mag), 100000, 0, << >>), LAMBDA qr :
             IF Canon(Reverse(qr[1])) = << >> THEN NatToDec(qr[2])
             ELSE MagToDec(Canon(Reverse(qr[1]))) \o FiveDigits(qr[2]))

\* Number.prototype.toString and BigInt.prototype.toString in radix ten
BigToDec(b) ==
    IF b.mag = << >> THEN <<48>>
    ELSE (IF b.neg THEN <<45>> ELSE << >>) \o MagToDec(b.mag)

----------------------------------------------------------------------------
(* JavaScript values: [t, n, s].  A number that is an integer carries its  *)
(* sign in n and its magnitude in s; "fraction" is a number with a         *)
(* fractional part, n + 0.5; a string carries its code units in s; a       *)
(* bigint its sign in n and its magnitude in s.                            *)

JsUndefined == [t |-> "undefined", n |-> 0, s |-> << >>]
JsNaN == [t |-> "NaN", n |-> 0, s |-> << >>]
JsFraction(i) == [t |-> "fraction", n |-> i, s |-> << >>]
JsStr(s) == [t |-> "string", n |-> 0, s |-> s]
JsNumBig(b) == [t |-> "number", n |-> IF b.neg THEN -1 ELSE 1, s |-> b.mag]
JsNum(i) == JsNumBig(IntToBig(i))
JsBigInt(b) == [t |-> "bigint", n |-> IF b.neg THEN -1 ELSE 1, s |-> b.mag]

\* true and false; as numbers they are 1 and 0
JsBool(b) == [t |-> "boolean", n |-> IF b THEN 1 ELSE 0, s |-> IF b THEN <<1>> ELSE << >>]

\* the integer a number or bigint value carries
BigOf(v) == Big(v.n < 0, v.s)

\* ToBoolean: `!v` is true of undefined, NaN, 0, 0n and ""
Truthy(v) ==
    CASE v.t \in {"undefined", "NaN"} -> FALSE
      [] v.t = "fraction" -> TRUE
      [] OTHER -> v.s # << >>

\* every literal read as a decimal one
RadixOfDecimal(s) == 10

\* the radix a StringIntegerLiteral announces: 0x, 0o, 0b, or none
RadixOf(s) ==
    IF Len(s) >= 2 /\ s[1] = 48
    THEN CASE s[2] \in {120, 88} -> 16
           [] s[2] \in {111, 79} -> 8
           [] s[2] \in {98, 66} -> 2
           [] OTHER -> 10
    ELSE 10

IsDigitOf(c, radix) ==
    CASE radix = 16 -> IsHexChar(c)
      [] radix = 8 -> IsOctChar(c)
      [] radix = 2 -> IsBinChar(c)
      [] OTHER -> IsDigit(c)

\* the digits of a trimmed literal: after the radix prefix, or after the sign
\* ("-" is 45, "+" 43) that only a decimal literal may carry
DigitsOf(s, radix) ==
    IF radix # 10 THEN Slice(s, 2)
    ELSE IF s[1] \in {45, 43} THEN Tail(s)
    ELSE s

\* ECMAScript StringToBigInt: the BigInt a string denotes, or a SyntaxError
StringToBigInt(str) ==
    Let(Trim(str), LAMBDA s :
        IF s = << >> THEN Ok(Big(FALSE, << >>))
        ELSE Let(RadixOf(s), LAMBDA radix :
             Let(DigitsOf(s, radix), LAMBDA digits :
                 IF digits # << >> /\ \A i \in 1..Len(digits) : IsDigitOf(digits[i], radix)
                 THEN Ok(Big(radix = 10 /\ s[1] = 45, DigitsToMag(digits, radix, << >>)))
                 ELSE Err("SyntaxError"))))

\* The BigInt(value) conversion function.
ToBigInt(v) ==
    CASE v.t \in {"bigint", "number", "boolean"} -> Ok(BigOf(v))
      [] v.t \in {"fraction", "NaN"} -> Err("RangeError")
      [] v.t = "string" -> StringToBigInt(v.s)
      [] OTHER -> Err("TypeError")

\* |b| <= 0x1fffffffffffff, the largest safe integer of a number
IsSafeMag(mag) == Len(mag) < 7 \/ (Len(mag) = 7 /\ mag[7] <= 31)

\* value[0] === "-" && value[1] !== "-"
HasMinus(s) == s[1] = 45 /\ ~(Len(s) >= 2 /\ s[2] = 45)

\* ethers getBigInt of a string that is not empty
GetBigIntOfString(s) ==
    Let(StringToBigInt(IF HasMinus(s) THEN Tail(s) ELSE s), LAMBDA r :
        IF ~r.ok THEN Err("INVALID_ARGUMENT: invalid BigNumberish string")
        ELSE IF HasMinus(s) THEN Ok(BigNegate(r.v))
        ELSE r)

\* ethers getBigInt
GetBigInt(v) ==
    CASE v.t = "bigint" -> Ok(BigOf(v))
      [] v.t = "number" ->
            IF IsSafeMag(v.s) THEN Ok(BigOf(v)) ELSE Err("INVALID_ARGUMENT: overflow")
      [] v.t \in {"fraction", "NaN"} -> Err("INVALID_ARGUMENT: underflow")
      [] v.t = "string" ->
            IF v.s = << >> THEN Err("INVALID_ARGUMENT: invalid BigNumberish string")
            ELSE GetBigIntOfString(v.s)
      [] OTHER -> Err("INVALID_ARGUMENT: invalid BigNumberish value")

\* getUint that lets a negative value through
GetUintSigned(v) == GetBigInt(v)

\* ethers getUint
GetUint(v) ==
    Then(GetBigInt(v), LAMBDA b :
        IF b.neg THEN Err("NUMERIC_FAULT: unsigned value cannot be negative") ELSE Ok(b))

\* a hex string made of even length by a leading "0"
EvenLength(h) == IF Len(h) % 2 = 1 THEN <<48>> \o h ELSE h

\* ethers toBeHex(value) without a width
ToBeHex(v) == Then(GetUint(v), LAMBDA b : Ok(Prefix0x \o EvenLength(BigToHex(b))))

\* the bytes two hexadecimal digits each denote
ParseHex(h) ==
    [i \in 1..(Len(h) \div 2) |-> (16 * HexVal(h[(2 * i) - 1])) + HexVal(h[2 * i])]

\* ethers getBytes of a string: it must match /^0x(?:[0-9a-f][0-9a-f])*$/i
GetBytes(v) ==
    IF v.t = "string" /\ StartsWith(v.s, Prefix0x) /\ Len(v.s) % 2 = 0
       /\ AllChars(Slice(v.s, 2), IsHexChar)
    THEN Ok(ParseHex(Slice(v.s, 2)))
    ELSE Err("INVALID_ARGUMENT: invalid BytesLike value")

\* ethers hexlify of a byte array
Hexlify(bytes) == Prefix0x \o Nibbles(bytes)

\* the bytes with zero bytes before (left) or after them, up to length bytes
Padded(bytes, length, left) ==
    IF left THEN Rep(0, length - Len(bytes)) \o bytes
    ELSE bytes \o Rep(0, length - Len(bytes))

\* ethers zeroPad(data, length, left)
ZeroPad(data, length, left) ==
    Then(GetBytes(data), LAMBDA bytes :
        IF length < Len(bytes) THEN Err("BUFFER_OVERRUN: padding exceeds data length")
        ELSE Ok(Hexlify(Padded(bytes, length, left))))

\* ethers zeroPadValue
ZeroPadValue(data, length) == ZeroPad(data, length, TRUE)

\* ethers zeroPadBytes
ZeroPadBytes(data, length) == ZeroPad(data, length, FALSE)

\* the surrogates are the code units 0xd800..0xdbff (high) and 0xdc00..0xdfff (low)
IsHighSurrogate(c) == c >= 55296 /\ c <= 56319
IsLowSurrogate(c) == c >= 56320 /\ c <= 57343

\* the code point of a surrogate pair
PairOf(c, c2) == 65536 + ((c % 1024) * 1024) + (c2 % 1024)

Utf8Of4(pair) ==
    << 240 + (pair \div 262144), 128 + ((pair \div 4096) % 64),
       128 + ((pair \div 64) % 64), 128 + (pair % 64) >>

RECURSIVE Utf8(_)
\* the loop of ethers toUtf8Bytes: the UTF-8 bytes of the code units, with
\* <<-1>> in place of the bytes of a high surrogate that no low surrogate follows
Utf8(str) ==
    IF str = << >> THEN << >>
    ELSE IF str[1] < 128 THEN <<str[1]>> \o Utf8(Tail(str))
    ELSE IF str[1] < 2048
    THEN <<192 + (str[1] \div 64), 128 + (str[1] % 64)>> \o Utf8(Tail(str))
    ELSE IF IsHighSurrogate(str[1])
    THEN IF Len(str) >= 2 /\ IsLowSurrogate(str[2])
         THEN Utf8Of4(PairOf(str[1], str[2])) \o Utf8(Tail(Tail(str)))
         ELSE <<-1>>
    ELSE << 224 + (str[1] \div 4096), 128 + ((str[1] \div 64) % 64), 128 + (str[1] % 64) >>
         \o Utf8(Tail(str))

\* ethers toUtf8Bytes
ToUtf8Bytes(v) ==
    IF v.t # "string" THEN Err("INVALID_ARGUMENT: invalid string value")
    ELSE Let(Utf8(v.s), LAMBDA b :
             IF \E i \in 1..Len(b) : b[i] < 0
             THEN Err("INVALID_ARGUMENT: invalid surrogate pair")
             ELSE Ok(b))

----------------------------------------------------------------------------
(* EncodingUtils (src/utils/encoding.js) *)

WordBytes == 32

\* ethers.hexlify of a hex string, then .slice(2)
HexlifySlice2(h) == Then(GetBytes(JsStr(h)), LAMBDA bytes : Ok(Slice(Hexlify(bytes), 2)))

\* Math.ceil(n / 32) * 32
RoundUpTo32(n) == ((n + WordBytes - 1) \div WordBytes) * WordBytes

\* encodeAddress padding on the right
EncodeAddressRightPad(addr) == Then(ZeroPadBytes(addr, WordBytes), HexlifySlice2)

\* EncodingUtils.encodeAddress
EncodeAddress(addr) == Then(ZeroPadValue(addr, WordBytes), HexlifySlice2)

\* encodeUint padding on the right
EncodeUintRightPad(value) ==
    Then(ToBeHex(value), LAMBDA h : Then(ZeroPadBytes(JsStr(h), WordBytes), HexlifySlice2))

\* EncodingUtils.encodeUint
EncodeUint(value) ==
    Then(ToBeHex(value), LAMBDA h : Then(ZeroPadValue(JsStr(h), WordBytes), HexlifySlice2))

\* encodeString padding to the next multiple of 32 above the length
EncodeStringOneWordMore(str) ==
    Then(ToUtf8Bytes(str), LAMBDA bytes :
    Then(ZeroPadBytes(JsStr(Hexlify(bytes)), RoundUpTo32(Len(bytes) + 1)), LAMBDA padded :
    Then(EncodeUint(JsNum(Len(bytes))), LAMBDA lengthHex :
    Then(HexlifySlice2(padded), LAMBDA paddedData :
    Ok([lengthHex |-> lengthHex, paddedData |-> paddedData])))))

\* EncodingUtils.encodeString: {lengthHex, paddedData}
EncodeString(str) ==
    Then(ToUtf8Bytes(str), LAMBDA bytes :
    Then(ZeroPadBytes(JsStr(Hexlify(bytes)), RoundUpTo32(Len(bytes))), LAMBDA padded :
    Then(EncodeUint(JsNum(Len(bytes))), LAMBDA lengthHex :
    Then(HexlifySlice2(padded), LAMBDA paddedData :
    Ok([lengthHex |-> lengthHex, paddedData |-> paddedData])))))

\* EncodingUtils.encodeBool
EncodeBool(value) == EncodeUint(JsNum(IF Truthy(value) THEN 1 ELSE 0))

----------------------------------------------------------------------------
(* JSON.stringify of the messages array.  A message is a sequence of       *)
(* properties [k, v]: k the code units of the key, v a string or an        *)
(* integer number, as createRandomProposal builds them.                    *)

\* the escape \uXXXX of a code unit
Hex4(c) ==
    <<92, 117, HexChar(c \div 4096), HexChar((c \div 256) % 16),
      HexChar((c \div 16) % 16), HexChar(c % 16)>>

\* QuoteJSONString on one code unit that is not part of a surrogate pair
JsonEscapeChar(c) ==
    CASE c = 34 -> <<92, 34>>
      [] c = 92 -> <<92, 92>>
      [] c = 8 -> <<92, 98>>
      [] c = 9 -> <<92, 116>>
      [] c = 10 -> <<92, 110>>
      [] c = 12 -> <<92, 102>>
      [] c = 13 -> <<92, 114>>
      [] c < 32 \/ IsHighSurrogate(c) \/ IsLowSurrogate(c) -> Hex4(c)
      [] OTHER -> <<c>>

RECURSIVE JsonEscape(_)
JsonEscape(s) ==
    IF s = << >> THEN << >>
    ELSE IF IsHighSurrogate(s[1]) /\ Len(s) >= 2 /\ IsLowSurrogate(s[2])
    THEN <<s[1], s[2]>> \o JsonEscape(Tail(Tail(s)))
    ELSE JsonEscapeChar(s[1]) \o JsonEscape(Tail(s))

JsonQuote(s) == <<34>> \o JsonEscape(s) \o <<34>>

JsonValue(v) == IF v.t = "string" THEN JsonQuote(v.s) ELSE BigToDec(BigOf(v))

RECURSIVE JsonProps(_)
\* "k":v,"k":v
JsonProps(obj) ==
    IF obj = << >> THEN << >>
    ELSE JsonQuote(obj[1].k) \o <<58>> \o JsonValue(obj[1].v)
         \o (IF Len(obj) > 1 THEN <<44>> ELSE << >>) \o JsonProps(Tail(obj))

RECURSIVE JsonElems(_)
\* {..},{..}
JsonElems(arr) ==
    IF arr = << >> THEN << >>
    ELSE <<123>> \o JsonProps(arr[1]) \o <<125>>
         \o (IF Len(arr) > 1 THEN <<44>> ELSE << >>) \o JsonElems(Tail(arr))

\* JSON.stringify(messages)
JsonStringify(messages) == <<91>> \o JsonElems(messages) \o <<93>>

----------------------------------------------------------------------------
(* GovernanceService (src/features/governance/governance-service.js) *)

\* GovernanceService.encodeAddress
GovEncodeAddress(addr) == Then(ZeroPadValue(addr, WordBytes), HexlifySlice2)

\* GovernanceService.encodeUint
GovEncodeUint(value) ==
    Then(ToBeHex(value), LAMBDA h : Then(ZeroPadValue(JsStr(h), WordBytes), HexlifySlice2))

\* lengthHex and paddedData of a byte array
GovLengthAndData(bytes) ==
    Then(GovEncodeUint(JsNum(Len(bytes))), LAMBDA lengthHex :
    Then(ZeroPadBytes(JsStr(Hexlify(bytes)), RoundUpTo32(Len(bytes))), LAMBDA padded :
    Then(HexlifySlice2(padded), LAMBDA paddedData :
    Ok([lengthHex |-> lengthHex, paddedData |-> paddedData]))))

\* GovernanceService.encodeString
GovEncodeString(str) == Then(ToUtf8Bytes(str), GovLengthAndData)

\* encodeBool that hands the boolean itself to encodeUint
GovEncodeBoolOfValue(value) == GovEncodeUint(value)

\* GovernanceService.encodeBool
GovEncodeBool(value) == GovEncodeUint(JsNum(IF Truthy(value) THEN 1 ELSE 0))

\* encodeMessagesArray with the length word of the string length of the JSON
EncodeMessagesArrayStringLength(messages) ==
    Then(ToUtf8Bytes(JsStr(JsonStringify(messages))), LAMBDA bytes :
    Then(GovLengthAndData(bytes), LAMBDA field :
    Then(GovEncodeUint(JsNum(Len(JsonStringify(messages)))), LAMBDA lengthHex :
    Ok([lengthHex |-> lengthHex, paddedData |-> field.paddedData]))))

\* GovernanceService.encodeMessagesArray
EncodeMessagesArray(messages) ==
    Then(ToUtf8Bytes(JsStr(JsonStringify(messages))), GovLengthAndData)

\* "0x0000000000000000000000000000000000000000"
ZeroAddress == Prefix0x \o Rep(48, 40)

\* "cb0dddfe"
CreateProposalSelector == <<99, 98, 48, 100, 100, 100, 102, 101>>

TitleOffset == 160

\* String.prototype.length: the number of UTF-16 code units
StringLength(str) == Len(str.s)

\* descriptionOffset and messagesOffset of buildCreateProposalCalldata
DescriptionOffsetOf(title) == TitleOffset + WordBytes + RoundUpTo32(StringLength(title))
MessagesOffsetOf(title, description) ==
    DescriptionOffsetOf(title) + WordBytes + RoundUpTo32(StringLength(description))

\* the parts with the proposer before the deposit
CreateProposalPartsProposerFirst(title, description, messages, deposit) ==
    IF title.t # "string" \/ description.t # "string" THEN Err("TypeError")
    ELSE
    Then(GovEncodeUint(JsNum(TitleOffset)), LAMBDA encodedTitleOffset :
    Then(GovEncodeUint(JsNum(DescriptionOffsetOf(title))), LAMBDA encodedDescriptionOffset :
    Then(GovEncodeUint(JsNum(MessagesOffsetOf(title, description))), LAMBDA encodedMessagesOffset :
    Then(GovEncodeUint(deposit), LAMBDA encodedDeposit :
    Then(GovEncodeAddress(JsStr(ZeroAddress)), LAMBDA encodedProposer :
    Then(GovEncodeString(title), LAMBDA encodedTitle :
    Then(GovEncodeString(description), LAMBDA encodedDescription :
    Then(EncodeMessagesArray(messages), LAMBDA encodedMessages :
    Ok(<< encodedTitleOffset, encodedDescriptionOffset, encodedMessagesOffset,
          encodedProposer, encodedDeposit,
          encodedTitle.lengthHex, encodedTitle.paddedData,
          encodedDescription.lengthHex, encodedDescription.paddedData,
          encodedMessages.lengthHex, encodedMessages.paddedData >>)))))))))

\* the eleven parts buildCreateProposalCalldata concatenates after the selector,
\* encoded in the order the code encodes them
CreateProposalParts(title, description, messages, deposit) ==
    IF title.t # "string" \/ description.t # "string" THEN Err("TypeError")
    ELSE
    Then(GovEncodeUint(JsNum(TitleOffset)), LAMBDA encodedTitleOffset :
    Then(GovEncodeUint(JsNum(DescriptionOffsetOf(title))), LAMBDA encodedDescriptionOffset :
    Then(GovEncodeUint(JsNum(MessagesOffsetOf(title, description))), LAMBDA encodedMessagesOffset :
    Then(GovEncodeUint(deposit), LAMBDA encodedDeposit :
    Then(GovEncodeAddress(JsStr(ZeroAddress)), LAMBDA encodedProposer :
    Then(GovEncodeString(title), LAMBDA encodedTitle :
    Then(GovEncodeString(description), LAMBDA encodedDescription :
    Then(EncodeMessagesArray(messages), LAMBDA encodedMessages :
    Ok(<< encodedTitleOffset, encodedDescriptionOffset, encodedMessagesOffset,
          encodedDeposit, encodedProposer,
          encodedTitle.lengthHex, encodedTitle.paddedData,
          encodedDescription.lengthHex, encodedDescription.paddedData,
          encodedMessages.lengthHex, encodedMessages.paddedData >>)))))))))

RECURSIVE Concat(_)
Concat(parts) == IF parts = << >> THEN << >> ELSE parts[1] \o Concat(Tail(parts))

\* GovernanceService.buildCreateProposalCalldata
BuildCreateProposalCalldata(title, description, messages, deposit) ==
    Then(CreateProposalParts(title, description, messages, deposit), LAMBDA parts :
        Ok(Prefix0x \o CreateProposalSelector \o Concat(parts)))


\* "9ec4d363"
VoteSelector == <<57, 101, 99, 52, 100, 51, 54, 51>>

VoteOffset == 128

\* buildVoteCalldata with a selector that has its own "0x"
BuildVoteCalldataTwoPrefixes(voter, proposalId, support, reason) ==
    Then(GovEncodeAddress(voter), LAMBDA encodedVoter :
    Then(GovEncodeUint(proposalId), LAMBDA encodedProposalId :
    Then(GovEncodeBool(support), LAMBDA encodedSupport :
    Then(GovEncodeUint(JsNum(VoteOffset)), LAMBDA offsetToString :
    Then(GovEncodeString(reason), LAMBDA encodedString :
    Ok(Prefix0x \o Prefix0x \o VoteSelector \o encodedVoter \o encodedProposalId
       \o encodedSupport \o offsetToString \o encodedString.lengthHex
       \o encodedString.paddedData))))))

\* GovernanceService.buildVoteCalldata
BuildVoteCalldata(voter, proposalId, support, reason) ==
    Then(GovEncodeAddress(voter), LAMBDA encodedVoter :
    Then(GovEncodeUint(proposalId), LAMBDA encodedProposalId :
    Then(GovEncodeBool(support), LAMBDA encodedSupport :
    Then(GovEncodeUint(JsNum(VoteOffset)), LAMBDA offsetToString :
    Then(GovEncodeString(reason), LAMBDA encodedString :
    Ok(Prefix0x \o VoteSelector \o encodedVoter \o encodedProposalId \o encodedSupport
       \o offsetToString \o encodedString.lengthHex \o encodedString.paddedData))))))
----------------------------------------------------------------------------
(* ValidationUtils.isValidAddress and ethers getAddress *)

\* "0xD4949664cD82660AaE99bEdc034a0deA8A0bd517", the HLS token
HlsToken == S(<<"0", "x", "D", "4", "9", "4", "9", "6", "6", "4", "c", "D", "8", "2", "6", "6",
                "0", "A", "a", "E", "9", "9", "b", "E", "d", "c", "0", "3", "4", "a", "0", "d",
                "e", "A", "8", "A", "0", "b", "d", "5", "1", "7">>)

\* the EIP-55 checksum addresses of the addresses the inputs spell in mixed
\* case; getChecksumAddress computes them with keccak256
ChecksumAddresses == {HlsToken}

\* /([A-F].*[a-f])|([a-f].*[A-F])/
IsMixedCase(s) ==
    (\E i \in 1..Len(s) : IsUpperHex(s[i])) /\ (\E i \in 1..Len(s) : IsLowerHex(s[i]))

\* the address with the "0x" that getAddress adds when it is missing
With0x(s) == IF StartsWith(s, Prefix0x) THEN s ELSE Prefix0x \o s

\* /^(0x)?[0-9a-fA-F]{40}$/
IsAddressLike(s) ==
    Len(With0x(s)) = 42 /\ Len(s) >= 40 /\ AllChars(Slice(With0x(s), 2), IsHexChar)

\* ethers getAddress succeeds: forty hex digits that, when in mixed case,
\* are the checksum address
GetAddressOk(s) ==
    IsAddressLike(s) /\ (IsMixedCase(Slice(With0x(s), 2)) => With0x(s) \in ChecksumAddresses)

\* ValidationUtils.isValidAddress, Helpers.isValidAddress
IsValidAddress(v) == v.t = "string" /\ GetAddressOk(v.s)

----------------------------------------------------------------------------
(* BridgeCalldataBuilder *)

\* v <= 0 of a value compared with the number 0: NaN compares false
LeqZero(v) ==
    CASE v.t \in {"number", "bigint"} -> BigLeqZero(BigOf(v))
      [] v.t = "fraction" -> v.n < 0
      [] v.t = "string" -> StringToBigInt(v.s).ok /\ BigLeqZero(StringToBigInt(v.s).v)
      [] OTHER -> FALSE

ErrChain == "Invalid destination chain ID"
ErrToken == "Invalid token address"
ErrAmount == "Invalid amount"
ErrFee == "Invalid fee/gas amount"
ErrExtra == "Invalid extra string (must be hex address)"

\* what each if statement of validateBridgeParams pushes on errors
ChainErrors(destChainId) ==
    IF ~Truthy(destChainId) \/ LeqZero(destChainId) THEN <<ErrChain>> ELSE << >>

TokenErrors(tokenAddress) == IF ~IsValidAddress(tokenAddress) THEN <<ErrToken>> ELSE << >>

AmountErrors(amountWei) ==
    IF ~Truthy(amountWei) THEN Ok(<<ErrAmount>>)
    ELSE Then(ToBigInt(amountWei), LAMBDA b : Ok(IF BigLeqZero(b) THEN <<ErrAmount>> ELSE << >>))

FeeErrors(feeOrGas) ==
    IF ~Truthy(feeOrGas) THEN Ok(<<ErrFee>>)
    ELSE Then(ToBigInt(feeOrGas), LAMBDA b : Ok(IF BigLtZero(b) THEN <<ErrFee>> ELSE << >>))

ExtraErrors(extraString) ==
    IF ~Truthy(extraString) THEN Ok(<<ErrExtra>>)
    ELSE IF extraString.t # "string" THEN Err("TypeError")
    ELSE Ok(IF ~StartsWith(extraString.s, Prefix0x) THEN <<ErrExtra>> ELSE << >>)

\* throw new Error(`Bridge validation failed: ${errors.join(', ')}`): the
\* messages joined are kept in v
ValidationFailed(errors) == [ok |-> FALSE, v |-> errors, err |-> "Bridge validation failed"]

\* BridgeCalldataBuilder.validateBridgeParams
ValidateBridgeParams(destChainId, tokenAddress, amountWei, feeOrGas, extraString) ==
    Then(AmountErrors(amountWei), LAMBDA amountErrors :
    Then(FeeErrors(feeOrGas), LAMBDA feeErrors :
    Then(ExtraErrors(extraString), LAMBDA extraErrors :
    Let(ChainErrors(destChainId) \o TokenErrors(tokenAddress) \o amountErrors
            \o feeErrors \o extraErrors, LAMBDA errors :
        IF Len(errors) > 0 THEN ValidationFailed(errors) ELSE Ok(TRUE)))))

\* "0x7ae4a8ff"
BridgeSelector == <<48, 120, 55, 97, 101, 52, 97, 56, 102, 102>>

\* 0xa0
BridgeOffset == 160

\* buildBridgeCalldata with the fee before the amount
BuildBridgeCalldataFeeFirst(destChainId, tokenAddress, amountWei, feeOrGas, extraString) ==
    Then(EncodeUint(destChainId), LAMBDA encodedDest :
    Then(EncodeUint(JsNum(BridgeOffset)), LAMBDA encodedOffset :
    Then(EncodeAddress(tokenAddress), LAMBDA encodedToken :
    Then(EncodeUint(amountWei), LAMBDA encodedAmount :
    Then(EncodeUint(feeOrGas), LAMBDA encodedFee :
    Then(EncodeString(extraString), LAMBDA encodedExtra :
    Ok(BridgeSelector \o encodedDest \o encodedOffset \o encodedToken \o encodedFee
       \o encodedAmount \o encodedExtra.lengthHex \o encodedExtra.paddedData)))))))

\* BridgeCalldataBuilder.buildBridgeCalldata
BuildBridgeCalldata(destChainId, tokenAddress, amountWei, feeOrGas, extraString) ==
    Then(EncodeUint(destChainId), LAMBDA encodedDest :
    Then(EncodeUint(JsNum(BridgeOffset)), LAMBDA encodedOffset :
    Then(EncodeAddress(tokenAddress), LAMBDA encodedToken :
    Then(EncodeUint(amountWei), LAMBDA encodedAmount :
    Then(EncodeUint(feeOrGas), LAMBDA encodedFee :
    Then(EncodeString(extraString), LAMBDA encodedExtra :
    Ok(BridgeSelector \o encodedDest \o encodedOffset \o encodedToken \o encodedAmount
       \o encodedFee \o encodedExtra.lengthHex \o encodedExtra.paddedData)))))))

----------------------------------------------------------------------------
(* DelegationCalldataBuilder (src/features/delegation/calldata-builder.js) *)

\* "f5e56040"
DelegateSelector == S(<<"f", "5", "e", "5", "6", "0", "4", "0">>)

\* "2efe8a5f"
ClaimSelector == S(<<"2", "e", "f", "e", "8", "a", "5", "f">>)

\* "ahelios"
DefaultDenom == S(<<"a", "h", "e", "l", "i", "o", "s">>)

DelegationOffset == 128

\* a parameter whose default value is never taken
OrDefaultNever(v, default) == v

\* a parameter with a default value takes it when the argument is undefined
OrDefault(v, default) == IF v.t = "undefined" THEN default ELSE v

\* buildDelegationCalldata with the offset of the bridge layout, 160
BuildDelegationCalldataOffset160(delegator, validator, amount, denom) ==
    Then(EncodeAddress(delegator), LAMBDA encodedDelegator :
    Then(EncodeAddress(validator), LAMBDA encodedValidator :
    Then(EncodeUint(amount), LAMBDA encodedAmount :
    Then(EncodeUint(JsNum(BridgeOffset)), LAMBDA encodedOffset :
    Then(EncodeString(OrDefault(denom, JsStr(DefaultDenom))), LAMBDA encodedString :
    Ok(Prefix0x \o DelegateSelector \o encodedDelegator \o encodedValidator
       \o encodedAmount \o encodedOffset \o encodedString.lengthHex
       \o encodedString.paddedData))))))

\* DelegationCalldataBuilder.buildDelegationCalldata
BuildDelegationCalldata(delegator, validator, amount, denom) ==
    Then(EncodeAddress(delegator), LAMBDA encodedDelegator :
    Then(EncodeAddress(validator), LAMBDA encodedValidator :
    Then(EncodeUint(amount), LAMBDA encodedAmount :
    Then(EncodeUint(JsNum(DelegationOffset)), LAMBDA encodedOffset :
    Then(EncodeString(OrDefault(denom, JsStr(DefaultDenom))), LAMBDA encodedString :
    Ok(Prefix0x \o DelegateSelector \o encodedDelegator \o encodedValidator
       \o encodedAmount \o encodedOffset \o encodedString.lengthHex
       \o encodedString.paddedData))))))

\* n + 0.5 in decimal
FractionToString(n) ==
    IF n >= 0 THEN BigToDec(IntToBig(n)) \o <<46, 53>>
    ELSE <<45>> \o BigToDec(IntToBig((-n) - 1)) \o <<46, 53>>

\* value.toString() of a string, a bigint or a number below 2^53, whose
\* digits are exact
ToStringOf(v) ==
    CASE v.t = "string" -> Ok(v.s)
      [] v.t \in {"number", "bigint"} -> Ok(BigToDec(BigOf(v)))
      [] v.t = "fraction" -> Ok(FractionToString(v.n))
      [] v.t = "NaN" -> Ok(<<78, 97, 78>>)
      [] OTHER -> Err("TypeError")

\* buildClaimCalldata with an offset word after the amount
BuildClaimCalldataWithOffset(delegator, claimAmountOrId) ==
    Then(EncodeAddress(delegator), LAMBDA encodedDelegator :
    Then(ToStringOf(claimAmountOrId), LAMBDA amountString :
    Then(EncodeUint(JsStr(amountString)), LAMBDA encodedAmount :
    Then(EncodeUint(JsNum(DelegationOffset)), LAMBDA encodedOffset :
    Ok(Prefix0x \o ClaimSelector \o encodedDelegator \o encodedAmount \o encodedOffset)))))

\* DelegationCalldataBuilder.buildClaimCalldata
BuildClaimCalldata(delegator, claimAmountOrId) ==
    Then(EncodeAddress(delegator), LAMBDA encodedDelegator :
    Then(ToStringOf(claimAmountOrId), LAMBDA amountString :
    Then(EncodeUint(JsStr(amountString)), LAMBDA encodedAmount :
    Ok(Prefix0x \o ClaimSelector \o encodedDelegator \o encodedAmount))))

----------------------------------------------------------------------------
(* The inputs the operations are called with *)

\* the integers reach from -(256^MaxPow) to 256^MaxPow, past 2^256 = 256^32
MaxPow == 33
\* the hex strings given as addresses hold 0..MaxAddrBytes bytes
MaxAddrBytes == 33
\* the strings hold up to MaxStrLen code units
MaxStrLen == 34

PowOf256(k) == Big(FALSE, Rep(0, k) \o <<1>>)
PowOf256Less1(k) == Big(FALSE, Rep(255, k))

\* 1000000000000000, 500000000000000000 and 1000000000000000000
MilliEther == Big(FALSE, <<0, 128, 198, 164, 126, 141, 3>>)
HalfEther == Big(FALSE, <<0, 0, 178, 211, 89, 91, 240, 6>>)
OneEther == Big(FALSE, <<0, 0, 100, 167, 179, 182, 224, 13>>)

\* Number.MAX_SAFE_INTEGER, 2^53 - 1
MaxSafeInteger == Big(FALSE, <<255, 255, 255, 255, 255, 255, 31>>)

NonNegInputs ==
    {PowOf256(k) : k \in 0..MaxPow} \cup {PowOf256Less1(k) : k \in 0..MaxPow}
        \cup {MilliEther, OneEther, MaxSafeInteger, IntToBig(160), IntToBig(11155111)}

BigInputs == NonNegInputs \cup {BigNegate(b) : b \in NonNegInputs}

\* an integer within the safe range of a number
IsSafe(b) == IsSafeMag(b.mag)

\* the integers a number can hold exactly among the inputs
IsDouble(b) == IsSafe(b) \/ b.mag = PowOf256(Len(b.mag) - 1).mag

DecString(b) == BigToDec(b)
HexString(b) == Prefix0x \o BigToHex(b)

\* an integer with one of its representations: bigint, number, decimal
\* string, hex string
UintInputs ==
    {[int |-> TRUE, value |-> b, v |-> JsBigInt(b)] : b \in BigInputs}
        \cup {[int |-> TRUE, value |-> b, v |-> JsNumBig(b)] : b \in {x \in BigInputs : IsDouble(x)}}
        \cup {[int |-> TRUE, value |-> b, v |-> JsStr(DecString(b))] : b \in BigInputs}
        \cup {[int |-> TRUE, value |-> b, v |-> JsStr(HexString(b))] : b \in NonNegInputs}

\* values that are no integers
Str(t) == JsStr(S(t))
NonUintInputs ==
    {[int |-> FALSE, value |-> Big(FALSE, << >>), v |-> x] : x \in
    {JsUndefined, JsNaN, JsFraction(1), JsFraction(-2), JsStr(<< >>), Str(<<"-">>),
     Str(<<"a", "b", "c">>), Str(<<"0", "x">>), Str(<<"1", ".", "5">>), Str(<<"-", "-", "1">>)}}

\* 2 * k hex digits: (upper: "AB", lower: "ab") repeated
HexDigits(k, upper) ==
    [i \in 1..(2 * k) |-> (IF upper THEN 65 ELSE 97) + ((i + 1) % 2)]

\* s with the code unit c at position i
WithChar(s, i, c) == [s EXCEPT ![i] = c]

\* hex strings of 0..MaxAddrBytes bytes in either case, the HLS token in
\* checksum case and in lower case, and strings that are no hex strings
AddressInputs ==
    {JsStr(Prefix0x \o HexDigits(k, u)) : k \in 0..MaxAddrBytes, u \in BOOLEAN}
        \cup {JsStr(HlsToken), JsStr(ToLower(HlsToken)), JsStr(Prefix0x \o Rep(48, 40))}
        \cup {JsStr(WithChar(ToLower(HlsToken), i, 103)) : i \in {3, 20, 42}}
        \cup {JsStr(Slice(HlsToken, 2)), JsStr(Tail(HlsToken)), JsStr(<< >>), JsUndefined,
              JsNum(0)}

\* "A" (1 byte in UTF-8), e-acute (2), the euro sign (3)
Letters == {65, 233, 8364}
\* U+1F600 as its surrogate pair (4 bytes)
Emoji == <<55357, 56832>>

RepSeq(s, n) == [i \in 1..(n * Len(s)) |-> s[((i - 1) % Len(s)) + 1]]

\* strings of one letter repeated, of emoji, of mixed letters, and strings
\* with a surrogate that has no partner
StringInputs ==
    {JsStr(Rep(c, n)) : c \in Letters, n \in 0..MaxStrLen}
        \cup {JsStr(RepSeq(Emoji, n)) : n \in 1..(MaxStrLen \div 2)}
        \cup {JsStr(<<65, 233, 8364>> \o Emoji), JsStr(<<55357>>), JsStr(<<65, 55357, 65>>),
              JsStr(<<56832>>), JsStr(ToLower(HlsToken)), JsUndefined}

\* the parameters of a bridge: a valid value first, then invalid ones
ChainInputs == {JsNum(11155111), JsNum(0), JsNum(-1), JsUndefined}
TokenInputs ==
    {JsStr(ToLower(HlsToken)), JsStr(HlsToken), JsStr(WithChar(HlsToken, 3, 100)),
     JsStr(Prefix0x \o HexDigits(19, FALSE)), JsStr(WithChar(ToLower(HlsToken), 42, 103))}
AmountInputs ==
    {JsStr(DecString(MilliEther)), Str(<<"0">>), Str(<<"-", "1">>), Str(<<"a", "b", "c">>),
     JsNum(0), JsUndefined}
FeeInputs ==
    {JsStr(DecString(HalfEther)), Str(<<"0">>), Str(<<"-", "1">>), Str(<<"a", "b", "c">>),
     JsNum(0)}
ExtraInputs ==
    {JsStr(ToLower(HlsToken)), Str(<<"0", "x", "z", "z">>), JsStr(Slice(HlsToken, 2)),
     JsStr(<< >>)}

BridgeInputs ==
    [destChainId : ChainInputs, tokenAddress : TokenInputs, amountWei : AmountInputs,
     feeOrGas : FeeInputs, extraString : ExtraInputs]

\* parameters that are all valid: the supported chains, addresses in lower,
\* checksum and digit-only form, amounts as strings, numbers and bigints
ValidBridgeInputs ==
    [destChainId : {JsNum(11155111), JsNum(137), JsNum(56)},
     tokenAddress : {JsStr(ToLower(HlsToken)), JsStr(HlsToken), JsStr(Prefix0x \o Rep(49, 40))},
     amountWei : {JsStr(DecString(MilliEther)), JsNum(1), JsBigInt(OneEther)},
     feeOrGas : {JsStr(DecString(HalfEther)), JsNum(21000), Str(<<"1">>)},
     extraString : {JsStr(ToLower(HlsToken)), JsStr(HlsToken), JsStr(Prefix0x \o Rep(49, 40))}]

\* the arguments of the delegation builders
DelegatorInputs ==
    {JsStr(ToLower(HlsToken)), JsStr(HlsToken), JsStr(Prefix0x \o HexDigits(19, FALSE)),
     JsUndefined}
ValidatorInputs ==
    {JsStr(Prefix0x \o Rep(49, 40)), JsStr(Prefix0x \o HexDigits(20, TRUE)),
     JsStr(WithChar(ToLower(HlsToken), 42, 103))}
DelegationAmountInputs ==
    {JsStr(DecString(OneEther)), JsNum(5), JsBigInt(MilliEther), Str(<<"0">>), JsNum(0),
     Str(<<"-", "1">>), JsUndefined, JsFraction(1)}
DenomInputs ==
    {JsUndefined, JsStr(DefaultDenom), JsStr(<< >>), JsStr(Rep(233, 17)), JsStr(Rep(65, 32)),
     Str(<<"u", "a", "t", "o", "m">>)}

DelegationInputs ==
    [delegator : DelegatorInputs, validator : ValidatorInputs,
     amount : DelegationAmountInputs, denom : DenomInputs]

\* the addresses of the wallets a private key may give
WalletAddresses == {Prefix0x \o Rep(49, 40), Prefix0x \o Rep(50, 40)}

\* the arguments of DelegationService.delegate
DelegateInputs ==
    [validator : ValidatorInputs, amount : DelegationAmountInputs, denom : DenomInputs]

ClaimAmountInputs ==
    {JsNum(1), JsNum(0), JsNum(-1), JsNumBig(MaxSafeInteger), JsStr(DecString(OneEther)),
     Str(<<"0">>), Str(<<"-", "1">>), JsBigInt(MilliEther), JsBigInt(PowOf256(32)),
     JsFraction(1), JsNaN, JsUndefined}

ClaimInputs == [delegator : DelegatorInputs, claimAmountOrId : ClaimAmountInputs]

\* the arguments of buildVoteCalldata
VoterInputs ==
    {JsStr(ToLower(HlsToken)), JsStr(HlsToken), JsStr(Prefix0x \o HexDigits(19, FALSE))}
ProposalIdInputs ==
    {JsNum(1), JsNum(0), JsNumBig(MaxSafeInteger), Str(<<"4", "2">>),
     JsBigInt(PowOf256Less1(32)), JsBigInt(PowOf256(32)), JsNum(-1), JsUndefined}
SupportInputs ==
    {JsBool(TRUE), JsBool(FALSE), JsUndefined, JsNum(0), Str(<<"f", "a", "l", "s", "e">>)}
ReasonInputs ==
    {JsStr(<< >>), Str(<<"y", "e", "s">>), JsStr(Rep(65, 32)), JsStr(Rep(233, 17)),
     JsStr(RepSeq(Emoji, 8)), JsStr(<<55357>>), JsUndefined}

VoteInputs ==
    [voter : VoterInputs, proposalId : ProposalIdInputs, support : SupportInputs,
     reason : ReasonInputs]

\* the descriptions: "BB", and strings around one and two words of UTF-8
DescriptionInputs ==
    {JsStr(<<66, 66>>), JsStr(Rep(65, 33)), JsStr(Rep(233, 16)), JsStr(Rep(233, 17)),
     JsStr(Rep(8364, 10)), JsStr(Rep(8364, 11)), JsStr(RepSeq(Emoji, 8)), JsStr(<< >>)}

TypeKey ==
    S(<<"@", "t", "y", "p", "e">>)
TypeValue ==
    S(<<"/", "h", "e", "l", "i", "o", "s", ".", "h", "y", "p", "e", "r", "i", "o", "n",
        ".", "v", "1", ".", "M", "s", "g", "U", "p", "d", "a", "t", "e", "O", "u", "t",
        "T", "x", "T", "i", "m", "e", "o", "u", "t">>)
SignerKey ==
    S(<<"s", "i", "g", "n", "e", "r">>)
ChainIdKey ==
    S(<<"c", "h", "a", "i", "n", "_", "i", "d">>)
BatchTimeoutKey ==
    S(<<"t", "a", "r", "g", "e", "t", "_", "b", "a", "t", "c", "h", "_", "t", "i", "m",
        "e", "o", "u", "t">>)
TxTimeoutKey ==
    S(<<"t", "a", "r", "g", "e", "t", "_", "o", "u", "t", "g", "o", "i", "n", "g", "_",
        "t", "x", "_", "t", "i", "m", "e", "o", "u", "t">>)

Prop(k, v) == [k |-> k, v |-> v]

\* the message createRandomProposal builds
TimeoutMessage ==
    << Prop(TypeKey, JsStr(TypeValue)), Prop(SignerKey, JsStr(HlsToken)),
       Prop(ChainIdKey, JsNum(11155111)), Prop(BatchTimeoutKey, JsNum(3000000)),
       Prop(TxTimeoutKey, JsNum(4999999)) >>

MessagesInputs == {<< >>, <<TimeoutMessage>>}

\* a message with one property
NoteKey == S(<<"n", "o", "t", "e">>)
Note(v) == << Prop(NoteKey, v) >>

\* the arrays encodeMessagesArray is called with: none, one and two messages,
\* strings with characters of two, three and four bytes of UTF-8, with
\* characters JSON escapes, and with a surrogate that has no partner
MessagesArrayInputs ==
    {<< >>, <<<<Prop(TypeKey, JsStr(TypeValue)), Prop(ChainIdKey, JsNum(11155111))>>>>,
     <<Note(JsNum(1)), Note(JsNum(-1))>>, <<Note(JsStr(<<233>>)), Note(JsStr(Rep(65, 40)))>>}
        \cup {<<Note(JsStr(s))>> :
                 s \in {Rep(233, 13), Rep(8364, 9), RepSeq(Emoji, 3), <<34, 92, 10, 1>>,
                        <<55357>>, <<65, 56832, 233>>, << >>}}

DepositInputs == {JsStr(DecString(OneEther))}

CreateProposalInputs ==
    [title : StringInputs, description : DescriptionInputs, messages : MessagesInputs,
     deposit : DepositInputs]


\* the builder calls that are repeated: two calls of every builder
BuilderCalls ==
    {[fn |-> "buildBridgeCalldata", args |-> a] :
        a \in {x \in ValidBridgeInputs :
                  /\ x.destChainId = JsNum(137) /\ x.tokenAddress = JsStr(HlsToken)
                  /\ x.amountWei = JsNum(1) /\ x.extraString = JsStr(HlsToken)
                  /\ x.feeOrGas \in {JsNum(21000), Str(<<"1">>)}}}
    \cup {[fn |-> "buildDelegationCalldata", args |-> a] :
        a \in {x \in DelegationInputs :
                  /\ x.delegator = JsStr(HlsToken) /\ x.validator = JsStr(Prefix0x \o Rep(49, 40))
                  /\ x.amount = JsNum(5) /\ x.denom \in {JsUndefined, JsStr(<< >>)}}}
    \cup {[fn |-> "buildClaimCalldata", args |-> a] :
        a \in {x \in ClaimInputs :
                  x.delegator = JsStr(HlsToken) /\ x.claimAmountOrId \in {JsNum(1), JsNum(-1)}}}
    \cup {[fn |-> "buildVoteCalldata", args |-> a] :
        a \in {x \in VoteInputs :
                  /\ x.voter = JsStr(HlsToken) /\ x.proposalId = JsNum(1)
                  /\ x.support \in {JsBool(TRUE), JsBool(FALSE)} /\ x.reason = JsStr(<< >>)}}
    \cup {[fn |-> "buildCreateProposalCalldata", args |-> a] :
        a \in {x \in CreateProposalInputs :
                  /\ x.title = JsStr(<<65, 233, 8364>> \o Emoji)
                  /\ x.description = JsStr(<<66, 66>>)
                  /\ x.messages = << >>}}
----------------------------------------------------------------------------
(* The calls.  fn names the operation that ran last, args its arguments,   *)
(* ret what it returned or threw; "none" between two calls.                *)

None == << >>

\* GovernanceService.waitAndVote is not running
NoVoting ==
    [pc |-> "idle", connected |-> FALSE, timeout |-> 0, elapsed |-> 0, polls |-> 0,
     failed |-> 0, found |-> FALSE, votes |-> 0, outcome |-> None]

\* main() was not called; new CycleManager(): cycleCount = 0
NoMain ==
    [pc |-> "idle", cycleCount |-> 0, calls |-> 0, executed |-> None, cooldowns |-> 0,
     exit |-> << >>]

\* FeatureExecutor.executeBridge is not running
NoExecutor ==
    [pc |-> "idle", amount |-> 0, address |-> "", result |-> None, notified |-> << >>,
     outcome |-> None]

\* neither HeliosMain.bridge nor HeliosMain.delegateToRandomValidator is running
NoNested ==
    [kind |-> "none", pc |-> "idle", level |-> 0, limit |-> 0, attempts |-> <<0, 0, 0>>,
     sends |-> 0, outcome |-> None]

\* AsyncUtils.retry is not running
NoRetry ==
    [pc |-> "idle", maxAttempts |-> 0, delay |-> 0, attempt |-> 0, invocations |-> 0,
     sleeps |-> 0, slept |-> 0, errors |-> << >>, outcome |-> None]

\* executeAllFeatures is not running and no transaction was sent
NoFeatures ==
    [feature |-> 0, stage |-> "ready", attempt |-> 0, reads |-> 0, inFlight |-> {}, txs |-> << >>]

Init ==
    /\ fn = "none"
    /\ args = None
    /\ ret = None
    /\ isInitialized = FALSE
    /\ wallet = FALSE
    /\ estimateData = None
    /\ delegationInitialized = FALSE
    /\ delegationWallet = None
    /\ sentTx = None
    /\ returned = [c \in BuilderCalls |-> None]
    /\ features = NoFeatures
    /\ retry = NoRetry
    /\ voting = NoVoting
    /\ main = NoMain
    /\ executor = NoExecutor
    /\ nested = NoNested

Idle == fn = "none"

Call(name, a, r) ==
    /\ Idle
    /\ fn' = name
    /\ args' = a
    /\ ret' = r

EncodeUintCall ==
    /\ \E a \in UintInputs \cup NonUintInputs : Call("encodeUint", a, EncodeUint(a.v))
    /\ UNCHANGED serviceVars

EncodeAddressCall ==
    /\ \E a \in AddressInputs : Call("encodeAddress", a, EncodeAddress(a))
    /\ UNCHANGED serviceVars

EncodeStringCall ==
    /\ \E a \in StringInputs : Call("encodeString", a, EncodeString(a))
    /\ UNCHANGED serviceVars

ValidateBridgeParamsCall ==
    /\ \E a \in BridgeInputs :
          Call("validateBridgeParams", a,
               ValidateBridgeParams(a.destChainId, a.tokenAddress, a.amountWei,
                                    a.feeOrGas, a.extraString))
    /\ UNCHANGED serviceVars

BuildBridgeCalldataCall ==
    /\ \E a \in BridgeInputs \cup ValidBridgeInputs :
          Call("buildBridgeCalldata", a,
               BuildBridgeCalldata(a.destChainId, a.tokenAddress, a.amountWei,
                                   a.feeOrGas, a.extraString))
    /\ UNCHANGED serviceVars

BuildCreateProposalCalldataCall ==
    /\ \E a \in CreateProposalInputs :
          Call("buildCreateProposalCalldata", a,
               BuildCreateProposalCalldata(a.title, a.description, a.messages, a.deposit))
    /\ UNCHANGED serviceVars

EncodeMessagesArrayCall ==
    /\ \E messages \in MessagesArrayInputs :
          Call("encodeMessagesArray", messages, EncodeMessagesArray(messages))
    /\ UNCHANGED serviceVars

BuildVoteCalldataCall ==
    /\ \E a \in VoteInputs :
          Call("buildVoteCalldata", a,
               BuildVoteCalldata(a.voter, a.proposalId, a.support, a.reason))
    /\ UNCHANGED serviceVars

BuildDelegationCalldataCall ==
    /\ \E a \in DelegationInputs :
          Call("buildDelegationCalldata", a,
               BuildDelegationCalldata(a.delegator, a.validator, a.amount, a.denom))
    /\ UNCHANGED serviceVars

BuildClaimCalldataCall ==
    /\ \E a \in ClaimInputs :
          Call("buildClaimCalldata", a, BuildClaimCalldata(a.delegator, a.claimAmountOrId))
    /\ UNCHANGED serviceVars

\* BridgeService.initialize: createProvider returns a provider or throws
Initialize ==
    /\ \E created \in BOOLEAN :
          /\ Call("initialize", None, IF created THEN Ok(TRUE) ELSE Err("Error"))
          /\ isInitialized' = (isInitialized \/ created)
    /\ UNCHANGED <<wallet, estimateData, delegationVars, otherVars>>

\* BridgeService.connectWallet: createWallet returns a wallet or throws
ConnectWallet ==
    /\ \E created \in BOOLEAN :
          /\ Call("connectWallet", None,
                  IF ~isInitialized THEN Err("Bridge Service not initialized")
                  ELSE IF created THEN Ok(TRUE) ELSE Err("Error"))
          /\ wallet' = (wallet \/ (isInitialized /\ created))
    /\ UNCHANGED <<isInitialized, estimateData, delegationVars, otherVars>>

\* the outcome of estimateBridgeGas once the calldata was built or not:
\* the provider answers the estimate or an error
EstimateOutcome(built, answered) ==
    IF ~built.ok THEN built
    ELSE IF answered THEN Ok(TRUE)
    ELSE Err("CALL_EXCEPTION")

\* BridgeService.estimateBridgeGas; estimateData is the data of the
\* request sent to the provider
EstimateBridgeGas ==
    /\ \E a \in BridgeInputs, answered \in BOOLEAN :
          IF ~isInitialized
          THEN /\ Call("estimateBridgeGas", a, Err("Bridge Service not initialized"))
               /\ estimateData' = None
          ELSE /\ Call("estimateBridgeGas", a,
                       EstimateOutcome(BuildBridgeCalldata(a.destChainId, a.tokenAddress,
                           a.amountWei, a.feeOrGas, a.extraString), answered))
               /\ estimateData' = BuildBridgeCalldata(a.destChainId, a.tokenAddress,
                                      a.amountWei, a.feeOrGas, a.extraString).v
    /\ UNCHANGED <<isInitialized, wallet, delegationVars, otherVars>>

\* DelegationService.initialize: the connection is validated or it throws
DelegationInitialize ==
    /\ \E connected \in BOOLEAN :
          /\ Call("delegation.initialize", None, IF connected THEN Ok(TRUE) ELSE Err("Error"))
          /\ delegationInitialized' = (delegationInitialized \/ connected)
    /\ UNCHANGED <<delegationWallet, sentTx, bridgeVars, otherVars>>

\* DelegationService.connectWallet: createWallet returns a wallet or throws
DelegationConnectWallet ==
    /\ \E address \in WalletAddresses, created \in BOOLEAN :
          /\ Call("delegation.connectWallet", None,
                  IF ~delegationInitialized THEN Err("Delegation service not initialized")
                  ELSE IF created THEN Ok(address) ELSE Err("Error"))
          /\ delegationWallet' =
                IF delegationInitialized /\ created THEN JsStr(address) ELSE delegationWallet
    /\ UNCHANGED <<delegationInitialized, sentTx, bridgeVars, otherVars>>

\* the provider and the wallet fail at getTransactionCount, at
\* sendTransaction or at tx.wait, or the transaction is confirmed
Outcomes == {"nonce", "send", "wait", "confirmed"}

\* {success: false, error}
Failure(error) == Ok([success |-> FALSE, error |-> error])

\* what delegate returns once the calldata was built or not
DelegateOutcome(built, outcome) ==
    IF ~built.ok THEN Failure(built.err)
    ELSE IF outcome # "confirmed" THEN Failure(outcome)
    ELSE Ok([success |-> TRUE, error |-> ""])

\* the transaction handed to wallet.sendTransaction, if delegate comes to it
DelegateTx(built, outcome) ==
    IF built.ok /\ outcome # "nonce"
    THEN [to |-> "TARGET_CONTRACT", data |-> built.v]
    ELSE None

\* the calldata delegate builds for the connected wallet
DelegateCalldata(a) ==
    BuildDelegationCalldata(delegationWallet, a.validator, a.amount,
                            OrDefault(a.denom, JsStr(DefaultDenom)))

\* DelegationService.delegate
Delegate ==
    /\ \E a \in DelegateInputs, outcome \in Outcomes :
          IF delegationWallet = None
          THEN /\ Call("delegate", a, Err("Wallet not connected"))
               /\ sentTx' = None
          ELSE /\ Call("delegate", a, DelegateOutcome(DelegateCalldata(a), outcome))
               /\ sentTx' = DelegateTx(DelegateCalldata(a), outcome)
    /\ UNCHANGED <<delegationInitialized, delegationWallet, bridgeVars, otherVars>>

\* the caller has the result; the next call may start
\* what the builder named in the call returns for the arguments of the call
BuilderResult(c) ==
    CASE c.fn = "buildBridgeCalldata" ->
            BuildBridgeCalldata(c.args.destChainId, c.args.tokenAddress, c.args.amountWei,
                                c.args.feeOrGas, c.args.extraString)
      [] c.fn = "buildDelegationCalldata" ->
            BuildDelegationCalldata(c.args.delegator, c.args.validator, c.args.amount,
                                    c.args.denom)
      [] c.fn = "buildClaimCalldata" ->
            BuildClaimCalldata(c.args.delegator, c.args.claimAmountOrId)
      [] c.fn = "buildVoteCalldata" ->
            BuildVoteCalldata(c.args.voter, c.args.proposalId, c.args.support, c.args.reason)
      [] c.fn = "buildCreateProposalCalldata" ->
            BuildCreateProposalCalldata(c.args.title, c.args.description, c.args.messages,
                                        c.args.deposit)

\* the number of builder calls made so far that differ
CallsSeen == Cardinality({c \in BuilderCalls : returned[c] # None})

\* a builder that ends what it returns with a word counting the calls made
BuilderCallCounting ==
    /\ \E c \in BuilderCalls :
          /\ Call(c.fn, c.args,
                  Then(BuilderResult(c), LAMBDA calldata :
                  Then(EncodeUint(JsNum(CallsSeen)), LAMBDA nonce : Ok(calldata \o nonce))))
          /\ returned' = [returned EXCEPT ![c] =
                  Then(BuilderResult(c), LAMBDA calldata :
                  Then(EncodeUint(JsNum(CallsSeen)), LAMBDA nonce : Ok(calldata \o nonce)))]
    /\ UNCHANGED <<bridgeVars, delegationVars, automationVars>>

\* a call of one of the five builders; what it returned is remembered
BuilderCall ==
    /\ \E c \in BuilderCalls :
          /\ Call(c.fn, c.args, BuilderResult(c))
          /\ returned' = [returned EXCEPT ![c] = BuilderResult(c)]
    /\ UNCHANGED <<bridgeVars, delegationVars, automationVars>>

Return ==
    /\ ~Idle
    /\ fn' = "none"
    /\ args' = None
    /\ ret' = None
    /\ estimateData' = None
    /\ sentTx' = None
    /\ UNCHANGED <<isInitialized, wallet, delegationInitialized, delegationWallet, otherVars>>

Next ==
    \/ EncodeUintCall
    \/ EncodeAddressCall
    \/ EncodeStringCall
    \/ ValidateBridgeParamsCall
    \/ BuildBridgeCalldataCall
    \/ BuildCreateProposalCalldataCall
    \/ EncodeMessagesArrayCall
    \/ BuildVoteCalldataCall
    \/ BuildDelegationCalldataCall
    \/ BuildClaimCalldataCall
    \/ Return

Spec == Init /\ [][Next]_vars

NextBridgeService ==
    \/ Initialize
    \/ ConnectWallet
    \/ EstimateBridgeGas
    \/ Return

SpecBridgeService == Init /\ [][NextBridgeService]_vars

NextDelegationService ==
    \/ DelegationInitialize
    \/ DelegationConnectWallet
    \/ Delegate
    \/ BuildDelegationCalldataCall
    \/ Return

SpecDelegationService == Init /\ [][NextDelegationService]_vars


NextBuilders ==
    \/ BuilderCall
    \/ Return

SpecBuilders == Init /\ [][NextBuilders]_vars

----------------------------------------------------------------------------
(* HeliosMain.executeAllFeatures (main.js): the features of one cycle, one *)
(* after the other.  features.feature is the position in FeatureOrder,     *)
(* features.stage "waiting" while the feature awaits tx.wait(),            *)
(* features.inFlight the transactions sent and not yet settled by the      *)
(* chain, features.txs every transaction sent in the cycle with the read   *)
(* of the nonce it was built from.                                         *)

MaxTxPerFeature == 2

FeatureOrder ==
    <<"faucet", "bridge", "delegation", "claimReward", "governanceVote", "createProposal",
      "userInfo", "swap">>

\* the features that send transactions; the faucet and the user info are
\* requests to an API
SubmittingFeatures ==
    {"bridge", "delegation", "claimReward", "governanceVote", "createProposal", "swap"}

exceptFeatures == <<fn, args, ret, bridgeVars, delegationVars, historyVars, retry, nested, executor, main, voting>>

FeaturesRunning == features.feature \in 1..Len(FeatureOrder)

\* executeAllFeatures is called: a new cycle begins
ExecuteAllFeatures ==
    /\ ~FeaturesRunning
    /\ features' = [NoFeatures EXCEPT !.feature = 1]
    /\ UNCHANGED exceptFeatures

\* the feature ends without another transaction: it is disabled, fails
\* before wallet.sendTransaction, or has returned its result
FeatureReturns ==
    /\ FeaturesRunning
    /\ features.stage = "ready"
    /\ features' = [features EXCEPT !.feature = @ + 1, !.attempt = 0]
    /\ UNCHANGED exceptFeatures

\* the transaction the feature hands to the wallet now
NextTx == [feature |-> FeatureOrder[features.feature], read |-> features.reads + 1]

\* a feature that sends its transaction and goes on without tx.wait()
SendTransactionNoWait ==
    /\ FeaturesRunning
    /\ features.stage = "ready"
    /\ FeatureOrder[features.feature] \in SubmittingFeatures
    /\ features.attempt < MaxTxPerFeature
    /\ features' = [features EXCEPT !.attempt = @ + 1,
                                    !.reads = @ + 1,
                                    !.inFlight = @ \cup {NextTx},
                                    !.txs = Append(@, NextTx)]
    /\ UNCHANGED exceptFeatures

\* the nonce is read, wallet.sendTransaction resolves and the feature
\* awaits tx.wait()
SendTransaction ==
    /\ FeaturesRunning
    /\ features.stage = "ready"
    /\ FeatureOrder[features.feature] \in SubmittingFeatures
    /\ features.attempt < MaxTxPerFeature
    /\ features' = [features EXCEPT !.stage = "waiting",
                                    !.attempt = @ + 1,
                                    !.reads = @ + 1,
                                    !.inFlight = @ \cup {NextTx},
                                    !.txs = Append(@, NextTx)]
    /\ UNCHANGED exceptFeatures

\* the chain confirms or fails a transaction
Settle ==
    /\ \E tx \in features.inFlight :
          features' = [features EXCEPT !.inFlight = @ \ {tx}]
    /\ UNCHANGED exceptFeatures

\* tx.wait() resolves or rejects for the transaction sent last
TxWait ==
    /\ features.stage = "waiting"
    /\ features.txs[Len(features.txs)] \notin features.inFlight
    /\ features' = [features EXCEPT !.stage = "ready"]
    /\ UNCHANGED exceptFeatures

NextFeatures ==
    \/ ExecuteAllFeatures
    \/ FeatureReturns
    \/ SendTransaction
    \/ Settle
    \/ TxWait

SpecFeatures == Init /\ [][NextFeatures]_vars

----------------------------------------------------------------------------
(* AsyncUtils.retry (services/transaction-service.js).  retry.attempt is   *)
(* the loop variable, retry.invocations the calls of fn, retry.errors the  *)
(* errors fn threw, retry.sleeps the calls of sleep and retry.slept the    *)
(* milliseconds asked of them, retry.outcome what retry returned or threw. *)

MaxRetryAttempts == 4

exceptRetry == <<fn, args, ret, bridgeVars, delegationVars, historyVars, features, nested, executor, main, voting>>

\* maxAttempts = 3, delay = 1000
DefaultMaxAttempts == 3
DefaultDelay == 1000

\* the limits retry is called with; undefined takes the default
MaxAttemptsInputs == {JsUndefined} \cup {JsNum(n) : n \in 0..MaxRetryAttempts}
DelayInputs == {JsUndefined, JsNum(0), JsNum(500)}

\* what fn returns and what it throws
FnValues == {"value1", "value2"}
FnErrors == {"error1", "error2"}

RECURSIVE MagValue(_)
MagValue(mag) == IF mag = << >> THEN 0 ELSE mag[1] + (256 * MagValue(Tail(mag)))

\* the number a non-negative integer number is
NumberOf(v) == MagValue(v.s)

\* for (let attempt = 1; attempt <= maxAttempts; ...): fn is called, or the
\* loop ends and retry returns undefined
LoopTest(r) ==
    IF r.attempt <= r.maxAttempts
    THEN [r EXCEPT !.pc = "calling", !.invocations = @ + 1]
    ELSE [r EXCEPT !.pc = "returned", !.outcome = Ok("undefined")]

\* retry(fn, maxAttempts, delay) is called
RetryCall ==
    /\ retry.pc = "idle"
    /\ \E m \in MaxAttemptsInputs, d \in DelayInputs :
          retry' = LoopTest([NoRetry EXCEPT
                        !.maxAttempts = NumberOf(OrDefault(m, JsNum(DefaultMaxAttempts))),
                        !.delay = NumberOf(OrDefault(d, JsNum(DefaultDelay))),
                        !.attempt = 1])
    /\ UNCHANGED exceptRetry

\* return await fn()
FnReturns ==
    /\ retry.pc = "calling"
    /\ \E v \in FnValues : retry' = [retry EXCEPT !.pc = "returned", !.outcome = Ok(v)]
    /\ UNCHANGED exceptRetry

\* a catch that sleeps after every failed attempt
FnThrowsAlwaysSleeps ==
    /\ retry.pc = "calling"
    /\ \E error \in FnErrors :
          retry' = [retry EXCEPT !.pc = "sleeping", !.sleeps = @ + 1,
                                 !.slept = @ + retry.delay,
                                 !.errors = Append(@, error)]
    /\ UNCHANGED exceptRetry

\* fn throws: the error is thrown again after the last attempt, and
\* sleep(delay) is called after any other
FnThrows ==
    /\ retry.pc = "calling"
    /\ \E error \in FnErrors :
          retry' = IF retry.attempt = retry.maxAttempts
                   THEN [retry EXCEPT !.pc = "thrown", !.outcome = Err(error),
                                      !.errors = Append(@, error)]
                   ELSE [retry EXCEPT !.pc = "sleeping", !.sleeps = @ + 1,
                                      !.slept = @ + retry.delay,
                                      !.errors = Append(@, error)]
    /\ UNCHANGED exceptRetry

\* sleep(delay) resolves: attempt++ and the test of the loop
SleepEnds ==
    /\ retry.pc = "sleeping"
    /\ retry' = LoopTest([retry EXCEPT !.attempt = @ + 1])
    /\ UNCHANGED exceptRetry

\* the caller has the result
RetryDone ==
    /\ retry.pc \in {"returned", "thrown"}
    /\ retry' = NoRetry
    /\ UNCHANGED exceptRetry

NextRetry ==
    \/ RetryCall
    \/ FnReturns
    \/ FnThrows
    \/ SleepEnds
    \/ RetryDone

\* fn terminates, and so does sleep
SpecRetry ==
    Init /\ [][NextRetry]_vars /\ WF_vars(FnReturns \/ FnThrows) /\ WF_vars(SleepEnds)

----------------------------------------------------------------------------
(* HeliosMain.bridge and HeliosMain.delegateToRandomValidator (main.js):   *)
(* AsyncUtils.retry around the automation, which calls AsyncUtils.retry    *)
(* around the service.  nested.level is the retry whose attempt is         *)
(* running, nested.attempts the loop variable of each retry, nested.sends  *)
(* the calls of wallet.sendTransaction.                                    *)

exceptNested == <<fn, args, ret, bridgeVars, delegationVars, historyVars, features, retry, executor, main, voting>>

\* the retries of a call: HeliosMain.bridge, BridgeAutomation.bridge and
\* BridgeAutomation.bridgeTokens; HeliosMain.delegateToRandomValidator and
\* DelegationAutomation.delegateToRandomValidator
DepthOf(kind) == IF kind = "bridge" THEN 3 ELSE 2

\* { success: false, error }
Failed == Ok([success |-> FALSE])

\* { success: true, txHash, ... }
Succeeded == Ok([success |-> TRUE])

RECURSIVE Rethrow(_, _)
\* the attempt of the retry at the level throws: the retry tries again, or
\* after its last attempt throws to its caller; DelegationAutomation
\* catches what its retry throws and returns { success: false }
Rethrow(r, level) ==
    IF level = 0 THEN [r EXCEPT !.pc = "thrown", !.level = 0, !.outcome = Err("Error")]
    ELSE IF r.attempts[level] < r.limit
    THEN [r EXCEPT !.level = level, !.attempts[level] = @ + 1]
    ELSE IF r.kind = "delegation" /\ level = 2
    THEN [r EXCEPT !.pc = "returned", !.level = 0, !.outcome = Failed]
    ELSE Rethrow(r, level - 1)

\* HeliosMain.bridge or HeliosMain.delegateToRandomValidator is called
MainCall ==
    /\ nested.pc = "idle"
    /\ \E kind \in {"bridge", "delegation"}, limit \in 0..MaxRetryAttempts :
          nested' = IF limit = 0
                    THEN [NoNested EXCEPT !.kind = kind, !.pc = "returned",
                                          !.outcome = Ok("undefined")]
                    ELSE [NoNested EXCEPT !.kind = kind, !.pc = "running", !.level = 1,
                                          !.limit = limit, !.attempts = <<1, 0, 0>>]
    /\ UNCHANGED exceptNested

\* the attempt throws before the service is asked to send: the automation
\* or the service is not initialized, the wallet cannot be connected, the
\* amount cannot be converted, the validator or the balance cannot be read
AttemptThrows ==
    /\ nested.pc = "running"
    /\ nested' = Rethrow(nested, nested.level)
    /\ UNCHANGED exceptNested

\* the attempt calls the retry of the next level
AttemptEnters ==
    /\ nested.pc = "running"
    /\ nested.level < DepthOf(nested.kind)
    /\ nested' = [nested EXCEPT !.level = @ + 1, !.attempts[nested.level + 1] = 1]
    /\ UNCHANGED exceptNested

\* the service returns { success: false } without a transaction: the
\* parameters are invalid, the chain is not supported, the balance is too
\* low, the calldata cannot be built or the nonce cannot be read
AttemptReturnsWithoutSend ==
    /\ nested.pc = "running"
    /\ nested.level = DepthOf(nested.kind)
    /\ nested' = [nested EXCEPT !.pc = "returned", !.level = 0, !.outcome = Failed]
    /\ UNCHANGED exceptNested

\* a service that throws the error of sendTransaction or of tx.wait()
AttemptSendsAndThrows ==
    /\ nested.pc = "running"
    /\ nested.level = DepthOf(nested.kind)
    /\ \E outcome \in {"send", "wait", "confirmed"} :
          nested' = IF outcome = "confirmed"
                    THEN [nested EXCEPT !.pc = "returned", !.level = 0, !.sends = @ + 1,
                                        !.outcome = Succeeded]
                    ELSE Rethrow([nested EXCEPT !.sends = @ + 1], nested.level)
    /\ UNCHANGED exceptNested

\* the service calls wallet.sendTransaction; it rejects, tx.wait() rejects
\* or the transaction is confirmed, and the service returns the result
AttemptSends ==
    /\ nested.pc = "running"
    /\ nested.level = DepthOf(nested.kind)
    /\ \E outcome \in {"send", "wait", "confirmed"} :
          nested' = [nested EXCEPT !.pc = "returned", !.level = 0, !.sends = @ + 1,
                                   !.outcome = IF outcome = "confirmed" THEN Succeeded
                                               ELSE Failed]
    /\ UNCHANGED exceptNested

\* the caller has the result
MainDone ==
    /\ nested.pc \in {"returned", "thrown"}
    /\ nested' = NoNested
    /\ UNCHANGED exceptNested

NextNested ==
    \/ MainCall
    \/ AttemptThrows
    \/ AttemptEnters
    \/ AttemptReturnsWithoutSend
    \/ AttemptSends
    \/ MainDone

SpecNested == Init /\ [][NextNested]_vars

----------------------------------------------------------------------------
(* BridgeService.bridgeTokens (bridge-service.js)                          *)

\* the keys of BRIDGE_CONFIGS['helios-testnet'].supportedChains
SupportedChains ==
    {S(<<"1", "1", "1", "5", "5", "1", "1", "1">>), S(<<"1", "3", "7">>), S(<<"5", "6">>)}

\* names every object literal inherits a value for
InheritedKeys ==
    {S(<<"t", "o", "S", "t", "r", "i", "n", "g">>), S(<<"v", "a", "l", "u", "e", "O", "f">>)}

\* the property key supportedChains[destChainId] looks up: the value as a string
PropertyKey(v) ==
    CASE v.t = "string" -> v.s
      [] v.t \in {"number", "bigint"} -> BigToDec(BigOf(v))
      [] v.t = "boolean" -> IF v.n = 1 THEN S(<<"t", "r", "u", "e">>)
                            ELSE S(<<"f", "a", "l", "s", "e">>)
      [] v.t = "fraction" -> BigToDec(IntToBig(v.n)) \o S(<<".", "5">>)
      [] v.t = "NaN" -> S(<<"N", "a", "N">>)
      [] OTHER -> S(<<"u", "n", "d", "e", "f", "i", "n", "e", "d">>)

\* this.config.supportedChains[destChainId] is truthy
IsSupported(destChainId) == PropertyKey(destChainId) \in SupportedChains \cup InheritedKeys

\* this.config.bridgeContract
BridgeContract == "0x0000000000000000000000000000000000000900"

\* the parameters bridgeTokens is called with
BridgeTokensInputs ==
    [destChainId : {JsNum(11155111), JsNum(137), JsNum(1), JsNum(0), JsUndefined,
                    Str(<<"5", "6">>), Str(<<"t", "o", "S", "t", "r", "i", "n", "g">>),
                    Str(<<"0", "x", "3", "8">>)},
     tokenAddress : {JsStr(ToLower(HlsToken)), JsStr(Prefix0x \o HexDigits(19, FALSE))},
     amountWei : {JsStr(DecString(MilliEther)), Str(<<"0">>), Str(<<"a", "b", "c">>)},
     feeOrGas : {JsStr(DecString(HalfEther)), Str(<<"-", "1">>)},
     extraString : {JsStr(ToLower(HlsToken)), Str(<<"0", "x", "z", "z">>), JsStr(<< >>)}]

\* Helpers.weiToEth throws for the log line, sendTransaction rejects,
\* tx.wait() rejects or the transaction is confirmed
BridgeOutcomes == {"format", "send", "wait", "confirmed"}

\* the try block without the test of the supported chains
BridgeTokensBuiltAnyChain(a) ==
    Then(ValidateBridgeParams(a.destChainId, a.tokenAddress, a.amountWei, a.feeOrGas,
                              a.extraString), LAMBDA valid :
    BuildBridgeCalldata(a.destChainId, a.tokenAddress, a.amountWei, a.feeOrGas,
                        a.extraString))

\* the try block of bridgeTokens up to the calldata: validateBridgeParams,
\* the test of the supported chains, buildBridgeCalldata
BridgeTokensBuilt(a) ==
    Then(ValidateBridgeParams(a.destChainId, a.tokenAddress, a.amountWei, a.feeOrGas,
                              a.extraString), LAMBDA valid :
    IF ~IsSupported(a.destChainId) THEN Err("Unsupported destination chain")
    ELSE BuildBridgeCalldata(a.destChainId, a.tokenAddress, a.amountWei, a.feeOrGas,
                             a.extraString))

\* what bridgeTokens returns once the calldata was built or not
BridgeTokensOutcome(built, outcome) ==
    IF ~built.ok THEN Failure(built.err)
    ELSE IF outcome # "confirmed" THEN Failure(outcome)
    ELSE Ok([success |-> TRUE, error |-> ""])

\* the transaction handed to wallet.sendTransaction, if bridgeTokens comes to it
BridgeTokensTx(built, outcome) ==
    IF built.ok /\ outcome # "format"
    THEN [to |-> BridgeContract, data |-> built.v]
    ELSE None

\* BridgeService.bridgeTokens
BridgeTokens ==
    /\ \E a \in BridgeTokensInputs, outcome \in BridgeOutcomes :
          IF ~isInitialized
          THEN /\ Call("bridgeTokens", a, Err("Bridge Service not initialized"))
               /\ sentTx' = None
          ELSE IF ~wallet
          THEN /\ Call("bridgeTokens", a, Err("Wallet not connected"))
               /\ sentTx' = None
          ELSE /\ Call("bridgeTokens", a, BridgeTokensOutcome(BridgeTokensBuilt(a), outcome))
               /\ sentTx' = BridgeTokensTx(BridgeTokensBuilt(a), outcome)
    /\ UNCHANGED <<bridgeVars, delegationInitialized, delegationWallet, otherVars>>

NextBridgeTokens ==
    \/ Initialize
    \/ ConnectWallet
    \/ BridgeTokens
    \/ Return

SpecBridgeTokens == Init /\ [][NextBridgeTokens]_vars

----------------------------------------------------------------------------
(* FeatureExecutor.executeBridge (feature-executor.js).  executor.result   *)
(* is what the bridge function resolved to, executor.notified the calls of *)
(* telegramNotifier.sendFeatureNotification, which returns true or false   *)
(* and does not throw.                                                     *)

exceptExecutor == <<fn, args, ret, bridgeVars, delegationVars, historyVars, features, retry, nested, main, voting>>

\* Helpers.getRandomBridgeAmount(): thousandths between 0.05 and 0.15
BridgeAmounts == {50, 75, 100, 150}

\* the addresses of the wallets of a cycle
CycleAddresses == {"0xD4949664cD82660AaE99bEdc034a0deA8A0bd517",
                   "0x1111111111111111111111111111111111111111"}

\* what HeliosMain.bridge resolves to: the results of
\* BridgeService.bridgeTokens, and undefined from a retry without attempts
BridgeResults ==
    {Ok([success |-> TRUE, error |-> ""]).v, Failure("Bridge validation failed").v,
     Failure("Unsupported destination chain").v, Failure("send").v, Failure("wait").v,
     JsUndefined}

\* if (bridgeResult): every object is truthy, undefined is not
IsTruthy(bridgeResult) == bridgeResult # JsUndefined

\* sendFeatureNotification('BRIDGE', success, details)
Notification(success, address) ==
    [feature |-> "BRIDGE", success |-> success, walletAddress |-> address]

\* executeBridge is called; with ENABLE_BRIDGE off it returns at once
ExecuteBridge ==
    /\ executor.pc = "idle"
    /\ \E enabled \in BOOLEAN, amount \in BridgeAmounts, address \in CycleAddresses :
          executor' = IF enabled
                      THEN [NoExecutor EXCEPT !.pc = "bridging", !.amount = amount,
                                              !.address = address]
                      ELSE [NoExecutor EXCEPT !.pc = "returned",
                                              !.outcome = [enabled |-> FALSE]]
    /\ UNCHANGED exceptExecutor

\* the bridge function resolves: the notification is chosen by
\* if (bridgeResult), sent, and waitBetweenProcesses begins
BridgeFunctionReturns ==
    /\ executor.pc = "bridging"
    /\ \E bridgeResult \in BridgeResults :
          executor' = [executor EXCEPT
              !.pc = "waiting",
              !.result = bridgeResult,
              !.notified = <<Notification(IsTruthy(bridgeResult), executor.address)>>]
    /\ UNCHANGED exceptExecutor

\* the bridge function rejects: the catch block notifies the failure and returns
BridgeFunctionThrows ==
    /\ executor.pc = "bridging"
    /\ executor' = [executor EXCEPT
          !.pc = "returned",
          !.notified = <<Notification(FALSE, executor.address)>>,
          !.outcome = [enabled |-> TRUE, error |-> "Error"]]
    /\ UNCHANGED exceptExecutor

\* waitBetweenProcesses is over: return { enabled: true, result: bridgeResult }
WaitBetweenProcessesEnds ==
    /\ executor.pc = "waiting"
    /\ executor' = [executor EXCEPT
          !.pc = "returned",
          !.outcome = [enabled |-> TRUE, result |-> executor.result]]
    /\ UNCHANGED exceptExecutor

\* the caller has the result
ExecutorDone ==
    /\ executor.pc = "returned"
    /\ executor' = NoExecutor
    /\ UNCHANGED exceptExecutor

NextExecutor ==
    \/ ExecuteBridge
    \/ BridgeFunctionReturns
    \/ BridgeFunctionThrows
    \/ WaitBetweenProcessesEnds
    \/ ExecutorDone

SpecExecutor == Init /\ [][NextExecutor]_vars

----------------------------------------------------------------------------
(* main() (main.js) and CycleManager.executeCycle (captcha-solver.js).     *)
(* main.pc is the await the loop stands at, main.calls the calls of        *)
(* executeCycle, main.executed how the last executeCycle ended, and        *)
(* main.cooldowns the calls of waitForCooldown completed since then.       *)

exceptMain == <<fn, args, ret, bridgeVars, delegationVars, historyVars, features, retry, nested, executor, voting>>

\* the cycles the model follows
MaxCycles == 4

\* what a cycle function resolves to: executeFullCycle's object with the
\* address, an object without one, or no object
CycleResults == {"object with address", "object", "undefined", "null"}

\* what a cycle function throws: an Error, a string, or no object
CycleErrors == {"Error", "string", "undefined", "null"}

\* main() reads PRIVATE_KEY and initializes HeliosMain; without the key or
\* when initialize() throws the process exits
MainStarts ==
    /\ main.pc = "idle"
    /\ \E started \in BOOLEAN :
          main' = IF started THEN [main EXCEPT !.pc = "start"]
                  ELSE [main EXCEPT !.pc = "exited", !.exit = <<1>>]
    /\ UNCHANGED exceptMain

\* executeCycle is called: this.cycleCount++, then the cycle function runs
ExecuteCycle ==
    /\ main.pc = "start"
    /\ main.calls < MaxCycles
    /\ main' = [main EXCEPT !.pc = "executing", !.cycleCount = @ + 1, !.calls = @ + 1,
                            !.executed = None]
    /\ UNCHANGED exceptMain

\* what executeCycle returns when the cycle function resolved: result.address
\* throws a TypeError inside the try when the result is no object
CycleReturned(result, cycleCount) ==
    IF result \in {"undefined", "null"}
    THEN Ok([success |-> FALSE, cycleNumber |-> cycleCount, error |-> "TypeError"])
    ELSE Ok([success |-> TRUE, cycleNumber |-> cycleCount, error |-> ""])

\* what executeCycle returns when the cycle function threw: error.message
\* throws a TypeError inside the catch when the error is no object
CycleThrew(error, cycleCount) ==
    IF error \in {"undefined", "null"}
    THEN Err("TypeError")
    ELSE Ok([success |-> FALSE, cycleNumber |-> cycleCount, error |-> error])

\* where the loop goes with the outcome of executeCycle
AfterCycle(outcome) ==
    IF ~outcome.ok THEN "catch notification"
    ELSE IF outcome.v.success THEN "cooldown"
    ELSE "error notification"

\* the cycle function resolves
CycleFunctionReturns ==
    /\ main.pc = "executing"
    /\ \E result \in CycleResults :
          main' = [main EXCEPT
              !.pc = AfterCycle(CycleReturned(result, main.cycleCount)),
              !.executed = [returned |-> TRUE,
                            outcome |-> CycleReturned(result, main.cycleCount)],
              !.cooldowns = 0]
    /\ UNCHANGED exceptMain

\* the cycle function rejects
CycleFunctionThrows ==
    /\ main.pc = "executing"
    /\ \E error \in CycleErrors :
          main' = [main EXCEPT
              !.pc = AfterCycle(CycleThrew(error, main.cycleCount)),
              !.executed = [returned |-> FALSE,
                            outcome |-> CycleThrew(error, main.cycleCount)],
              !.cooldowns = 0]
    /\ UNCHANGED exceptMain

\* the awaits of the loop body in the try block and in the catch block
TryAwaits == {"cooldown", "completion notification", "error notification", "error cooldown"}
CatchAwaits == {"catch notification", "catch cooldown"}

\* a loop whose error path goes on without waitForCooldown
NotificationSentNoCooldown ==
    /\ main.pc \in {"completion notification", "error notification", "catch notification"}
    /\ main' = [main EXCEPT !.pc = IF main.pc = "catch notification" THEN "catch cooldown"
                                   ELSE "start"]
    /\ UNCHANGED exceptMain

\* sendCycleCompletionNotification or sendErrorNotification resolves
NotificationSent ==
    /\ main.pc \in {"completion notification", "error notification", "catch notification"}
    /\ main' = [main EXCEPT !.pc = CASE main.pc = "completion notification" -> "start"
                                     [] main.pc = "error notification" -> "error cooldown"
                                     [] OTHER -> "catch cooldown"]
    /\ UNCHANGED exceptMain

\* waitForCooldown resolves
WaitForCooldownEnds ==
    /\ main.pc \in {"cooldown", "error cooldown", "catch cooldown"}
    /\ main' = [main EXCEPT !.pc = IF main.pc = "cooldown" THEN "completion notification"
                                   ELSE "start",
                            !.cooldowns = @ + 1]
    /\ UNCHANGED exceptMain

\* an await of the try block rejects: the catch block begins
TryAwaitThrows ==
    /\ main.pc \in TryAwaits
    /\ main' = [main EXCEPT !.pc = "catch notification"]
    /\ UNCHANGED exceptMain

\* an await of the catch block rejects: the outer catch calls process.exit(1)
CatchAwaitThrows ==
    /\ main.pc \in CatchAwaits
    /\ main' = [main EXCEPT !.pc = "exited", !.exit = <<1>>]
    /\ UNCHANGED exceptMain

NextMain ==
    \/ MainStarts
    \/ ExecuteCycle
    \/ CycleFunctionReturns
    \/ CycleFunctionThrows
    \/ NotificationSent
    \/ WaitForCooldownEnds
    \/ TryAwaitThrows
    \/ CatchAwaitThrows

SpecMain == Init /\ [][NextMain]_vars

----------------------------------------------------------------------------
(* GovernanceService.waitAndVote (governance-service.js).  voting.elapsed  *)
(* is Date.now() - startTime in milliseconds, voting.polls the calls of    *)
(* getVotingProposal, voting.failed those that threw, voting.votes the     *)
(* calls of wallet.sendTransaction.                                        *)

exceptVoting == <<fn, args, ret, bridgeVars, delegationVars, historyVars, features, retry, nested, executor, main>>

\* await AsyncUtils.sleep(30000)
PollDelay == 30000

\* the timeout argument: none, shorter than a sleep, between one and two
\* sleeps, and the default of two minutes
TimeoutInputs == {0, 20000, 45000, 120000}

\* the time a query of the proposals takes
QueryTimes == {0, 10000}

\* the result after the loop
TimeoutResult ==
    Ok([success |-> FALSE, error |-> "Timeout waiting for voting proposal"])

\* while (Date.now() - startTime < timeout): the next query, or the
\* result after the loop
TestTimeout(v) ==
    IF v.elapsed < v.timeout THEN [v EXCEPT !.pc = "polling"]
    ELSE [v EXCEPT !.pc = "returned", !.outcome = TimeoutResult]

\* waitAndVote is called, with or without a wallet
WaitAndVote ==
    /\ voting.pc = "idle"
    /\ \E connected \in BOOLEAN, timeout \in TimeoutInputs :
          voting' = IF connected
                    THEN TestTimeout([NoVoting EXCEPT !.connected = TRUE,
                                                      !.timeout = timeout])
                    ELSE [NoVoting EXCEPT !.pc = "thrown",
                                          !.outcome = Err("Wallet not connected")]
    /\ UNCHANGED exceptVoting

\* getVotingProposal resolves: with a proposal in VOTING_PERIOD vote() is
\* called, without one the sleep begins
ProposalsAnswered ==
    /\ voting.pc = "polling"
    /\ \E found \in BOOLEAN, took \in QueryTimes :
          voting' = [voting EXCEPT !.pc = IF found THEN "voting" ELSE "sleeping",
                                   !.found = found,
                                   !.polls = @ + 1,
                                   !.elapsed = @ + took]
    /\ UNCHANGED exceptVoting

\* a waitAndVote that throws what getVotingProposal throws
ProposalsFailedAndThrows ==
    /\ voting.pc = "polling"
    /\ \E took \in QueryTimes :
          voting' = [voting EXCEPT !.pc = "thrown", !.outcome = Err("Error"),
                                   !.polls = @ + 1,
                                   !.failed = @ + 1,
                                   !.elapsed = @ + took]
    /\ UNCHANGED exceptVoting

\* getVotingProposal rejects: the catch block logs and the sleep begins
ProposalsFailed ==
    /\ voting.pc = "polling"
    /\ \E took \in QueryTimes :
          voting' = [voting EXCEPT !.pc = "sleeping",
                                   !.polls = @ + 1,
                                   !.failed = @ + 1,
                                   !.elapsed = @ + took]
    /\ UNCHANGED exceptVoting

\* vote() fails before the wallet (calldata, nonce), at sendTransaction or
\* at tx.wait(), or the vote is confirmed
VoteOutcomes == {"build", "nonce", "send", "wait", "confirmed"}

\* vote() returns its result and waitAndVote returns it
VoteSettles ==
    /\ voting.pc = "voting"
    /\ \E outcome \in VoteOutcomes :
          voting' = [voting EXCEPT
              !.pc = "returned",
              !.votes = IF outcome \in {"build", "nonce"} THEN @ ELSE @ + 1,
              !.outcome = IF outcome = "confirmed" THEN Ok([success |-> TRUE, error |-> ""])
                          ELSE Failure(outcome)]
    /\ UNCHANGED exceptVoting

\* the sleep of 30 seconds is over: the loop tests the time again
SleepOver ==
    /\ voting.pc = "sleeping"
    /\ voting' = TestTimeout([voting EXCEPT !.elapsed = @ + PollDelay])
    /\ UNCHANGED exceptVoting

\* the caller has the result
VotingDone ==
    /\ voting.pc \in {"returned", "thrown"}
    /\ voting' = NoVoting
    /\ UNCHANGED exceptVoting

NextVoting ==
    \/ WaitAndVote
    \/ ProposalsAnswered
    \/ ProposalsFailed
    \/ VoteSettles
    \/ SleepOver
    \/ VotingDone

\* the provider answers or fails, the wallet settles and the timer fires
SpecVoting ==
    /\ Init
    /\ [][NextVoting]_vars
    /\ WF_vars(ProposalsAnswered \/ ProposalsFailed)
    /\ WF_vars(VoteSettles)
    /\ WF_vars(SleepOver)

----------------------------------------------------------------------------
(* Properties of buildCreateProposalCalldata *)

Range(s) == {s[i] : i \in 1..Len(s)}

\* the unsigned integer a word of hex digits denotes
DecodeWord(word) == Big(FALSE, DigitsToMag(word, 16, << >>))

\* the k-th 32-byte word after "0x" and the 4-byte selector of a calldata
HeadWord(calldata, k) == SubSeq(calldata, 10 + (64 * (k - 1)) + 1, 10 + (64 * k))

\* the offset written in the k-th head word
HeadOffset(calldata, k) == DecodeWord(HeadWord(calldata, k))

RECURSIVE HexLength(_, _)
\* the number of hex digits of the first k parts
HexLength(parts, k) == IF k = 0 THEN 0 ELSE Len(parts[k]) + HexLength(parts, k - 1)

\* the byte position, counted from the byte after the selector, at which
\* the k-th part begins in the output
PartStart(parts, k) == HexLength(parts, k - 1) \div 2

CreateProposalReturned == fn = "buildCreateProposalCalldata" /\ ret.ok

\* the parts of the calldata the call returned
ReturnedParts ==
    CreateProposalParts(args.title, args.description, args.messages, args.deposit).v

\* String byte length in UTF-8
ByteLength(str) == Len(Utf8(str.s))

\* C1: in the calldata buildCreateProposalCalldata returns, each of the three
\* head offsets (title, description, messages) is the byte position, counted
\* from the byte after the selector, at which that field's length word begins
\* (the 6th, 8th and 10th part of the output).
C1_OffsetsPointAtLengthWords ==
    CreateProposalReturned =>
        /\ HeadOffset(ret.v, 1) = IntToBig(PartStart(ReturnedParts, 6))
        /\ HeadOffset(ret.v, 2) = IntToBig(PartStart(ReturnedParts, 8))
        /\ HeadOffset(ret.v, 3) = IntToBig(PartStart(ReturnedParts, 10))

\* C2: the offsets are chained on UTF-8 byte lengths: titleOffset = 160,
\* descriptionOffset = titleOffset + 32 + roundUpTo32(byteLength(title)),
\* messagesOffset = descriptionOffset + 32 + roundUpTo32(byteLength(description)).
C2_OffsetsChainOnByteLengths ==
    CreateProposalReturned =>
        /\ HeadOffset(ret.v, 1) = IntToBig(160)
        /\ HeadOffset(ret.v, 2) = IntToBig(160 + 32 + RoundUpTo32(ByteLength(args.title)))
        /\ HeadOffset(ret.v, 3) =
              IntToBig(160 + 32 + RoundUpTo32(ByteLength(args.title))
                       + 32 + RoundUpTo32(ByteLength(args.description)))

----------------------------------------------------------------------------
(* Properties of validateBridgeParams and buildBridgeCalldata *)

ValidateReturned == fn = "validateBridgeParams"

\* the messages of the fields of a call that are invalid: a chain id that is
\* missing or not positive, a token that is no address, an amount or fee that
\* is missing, unparseable or out of range, an extra string without "0x"
InvalidFields(a) ==
    Range(ChainErrors(a.destChainId)) \cup Range(TokenErrors(a.tokenAddress))
        \cup (IF AmountErrors(a.amountWei).ok THEN Range(AmountErrors(a.amountWei).v)
              ELSE {ErrAmount})
        \cup (IF FeeErrors(a.feeOrGas).ok THEN Range(FeeErrors(a.feeOrGas).v)
              ELSE {ErrFee})
        \cup (IF ExtraErrors(a.extraString).ok THEN Range(ExtraErrors(a.extraString).v)
              ELSE {ErrExtra})

\* C3: when several parameters are invalid at the same time, an unparseable
\* amountWei or feeOrGas included, validateBridgeParams fails with one
\* validation error that names every failing field.
C3_NamesEveryFailingField ==
    (ValidateReturned /\ Cardinality(InvalidFields(args)) >= 2) =>
        /\ ~ret.ok
        /\ ret.err = "Bridge validation failed"
        /\ InvalidFields(args) \subseteq Range(ret.v)

\* the value is an integer that is zero or negative
ZeroOrNegative(v) == ToBigInt(v).ok /\ BigLeqZero(ToBigInt(v).v)

\* C4: validateBridgeParams fails whenever destChainId, amountWei or feeOrGas
\* is zero or negative; a feeOrGas of "0" is rejected.
C4_RejectsZeroAndNegative ==
    (/\ ValidateReturned
     /\ \/ ZeroOrNegative(args.destChainId)
        \/ ZeroOrNegative(args.amountWei)
        \/ ZeroOrNegative(args.feeOrGas)) => ~ret.ok

\* "0x" and forty hex digits
IsHexAddressString(v) ==
    /\ v.t = "string"
    /\ Len(v.s) = 42
    /\ StartsWith(v.s, Prefix0x)
    /\ AllChars(Slice(v.s, 2), IsHexChar)

\* C5: validateBridgeParams fails for every extraString that is not a
\* hex-encoded address string, one that starts with "0x" but has non-hex
\* characters or is not 20 bytes long included.
C5_RejectsNonHexExtraString ==
    (ValidateReturned /\ ~IsHexAddressString(args.extraString)) => ~ret.ok

\* validateBridgeParams would fail on the arguments of the call
ValidationWouldFail ==
    ~ValidateBridgeParams(args.destChainId, args.tokenAddress, args.amountWei,
                          args.feeOrGas, args.extraString).ok

\* C6: for every input on which validateBridgeParams would fail,
\* buildBridgeCalldata produces no hex, and hence estimateBridgeGas throws
\* without a calldata to send.
C6_NoCalldataForInvalidParams ==
    (fn = "estimateBridgeGas" /\ ValidationWouldFail) =>
        (~ret.ok /\ estimateData = None)

----------------------------------------------------------------------------
(* Properties of encodeAddress and encodeUint *)

\* C7: encodeAddress fails on every malformed address: a hex string that is
\* not exactly 20 bytes long, or a string with non-hex characters, is
\* rejected and no word is returned.
C7_RejectsMalformedAddress ==
    (fn = "encodeAddress" /\ ~IsHexAddressString(args)) => ~ret.ok

\* the integer is in 0 .. 2^256 - 1
InUint256(b) == ~b.neg /\ Len(b.mag) <= 32

EncodeUintOfInteger == fn = "encodeUint" /\ args.int

\* the integer is given as a number above Number.MAX_SAFE_INTEGER
IsUnsafeNumber(a) == a.v.t = "number" /\ ~IsSafe(a.value)

IsWord(h) == Len(h) = 64 /\ AllChars(h, LAMBDA c : IsDigit(c) \/ IsLowerHex(c))

EncodeAddressOfValid == fn = "encodeAddress" /\ IsHexAddressString(args)

\* the hex digits of the address, in lower case as hexlify writes them
AddressDigits(a) == ToLower(Slice(a.s, 2))

\* C10 as stated: for every valid 20-byte address a, encodeAddress(a) is 64
\* hex characters of which the first 24 bytes are zero and the last 20 bytes
\* are the address.
C10_High24BytesZero ==
    EncodeAddressOfValid =>
        /\ ret.ok
        /\ Len(ret.v) = 64
        /\ SubSeq(ret.v, 1, 48) = Rep(48, 48)
        /\ SubSeq(ret.v, 25, 64) = AddressDigits(args)

\* C10 as amended: for every valid 20-byte address a, encodeAddress(a) is 64
\* hex characters of which the first 24 characters (12 bytes) are zero and the
\* last 40 characters (20 bytes) are the address.
C10_High12BytesZero ==
    EncodeAddressOfValid =>
        /\ ret.ok
        /\ Len(ret.v) = 64
        /\ SubSeq(ret.v, 1, 24) = Rep(48, 24)
        /\ SubSeq(ret.v, 25, 64) = AddressDigits(args)

\* the HLS token address in checksum case is encoded
C10_Witness ==
    /\ EncodeAddressOfValid
    /\ args = JsStr(HlsToken)
    /\ ret.ok

----------------------------------------------------------------------------
(* Properties of encodeString *)

\* no surrogate of the string is without its partner
IsWellFormed(s) ==
    \A i \in 1..Len(s) :
        /\ IsHighSurrogate(s[i]) => (i < Len(s) /\ IsLowSurrogate(s[i + 1]))
        /\ IsLowSurrogate(s[i]) => (i > 1 /\ IsHighSurrogate(s[i - 1]))

RECURSIVE CodePoints(_)
\* the Unicode code points of a well-formed string
CodePoints(s) ==
    IF s = << >> THEN << >>
    ELSE IF IsHighSurrogate(s[1])
    THEN <<65536 + ((s[1] - 55296) * 1024) + (s[2] - 56320)>> \o CodePoints(Tail(Tail(s)))
    ELSE <<s[1]>> \o CodePoints(Tail(s))

\* UTF-8 (RFC 3629) of one code point
Utf8OfCodePoint(cp) ==
    IF cp < 128 THEN <<cp>>
    ELSE IF cp < 2048 THEN <<192 + (cp \div 64), 128 + (cp % 64)>>
    ELSE IF cp < 65536
    THEN <<224 + (cp \div 4096), 128 + ((cp \div 64) % 64), 128 + (cp % 64)>>
    ELSE <<240 + (cp \div 262144), 128 + ((cp \div 4096) % 64),
           128 + ((cp \div 64) % 64), 128 + (cp % 64)>>

RECURSIVE Utf8OfCodePoints(_)
Utf8OfCodePoints(cps) ==
    IF cps = << >> THEN << >>
    ELSE Utf8OfCodePoint(cps[1]) \o Utf8OfCodePoints(Tail(cps))

\* the UTF-8 bytes of a well-formed string
Utf8Reference(s) == Utf8OfCodePoints(CodePoints(s))

\* hex is the hex of bytes followed by zero bytes up to the smallest
\* multiple of 32 bytes that holds them
IsRightPadded(hex, bytes) ==
    /\ Len(hex) % 64 = 0
    /\ Len(hex) >= 2 * Len(bytes)
    /\ Len(hex) < (2 * Len(bytes)) + 64
    /\ AllChars(hex, IsHexChar)
    /\ ParseHex(hex) = bytes \o Rep(0, (Len(hex) \div 2) - Len(bytes))

\* field is the length word and the padded data of the bytes
IsLengthAndData(field, bytes) ==
    /\ IsWord(field.lengthHex)
    /\ DecodeWord(field.lengthHex) = IntToBig(Len(bytes))
    /\ IsRightPadded(field.paddedData, bytes)

EncodeStringOfWellFormed == fn = "encodeString" /\ args.t = "string" /\ IsWellFormed(args.s)

----------------------------------------------------------------------------
(* Independence of the representation *)

\* the word is what encodeUint returns for the decimal and the hex string
\* of the integer
IsWordOfStrings(r, b) ==
    /\ r.ok
    /\ r = EncodeUint(JsStr(DecString(b)))
    /\ r = EncodeUint(JsStr(HexString(b)))

\* the word is what encodeAddress returns for the address in lower case
\* and, for the HLS token, in checksum case
IsWordOfAddressForms(r, a) ==
    /\ r.ok
    /\ r = EncodeAddress(JsStr(ToLower(a.s)))
    /\ (ToLower(a.s) = ToLower(HlsToken)) => (r = EncodeAddress(JsStr(HlsToken)))

----------------------------------------------------------------------------
(* The layout of the calldata of the builders *)

\* the parameter area of a calldata: what follows "0x" and the selector
ParamArea(calldata) == Slice(calldata, 10)

\* the number of bytes of a calldata: two hex digits each after "0x"
ByteCount(calldata) == (Len(calldata) - 2) \div 2

\* the word that begins at the given byte position of the parameter area
WordAt(calldata, position) ==
    SubSeq(calldata, 10 + (2 * position) + 1, 10 + (2 * position) + 64)

\* the string field that begins at the given byte position and ends the calldata
FieldAt(calldata, position) ==
    [lengthHex |-> WordAt(calldata, position),
     paddedData |-> Slice(calldata, 10 + (2 * position) + 64)]

\* the word of a 20-byte address: twelve zero bytes, then the address
IsAddressWord(word, a) == word = Rep(48, 24) \o AddressDigits(a)

\* the word of an integer given in any form BigInt(value) reads
IsUintWord(word, v) == IsWord(word) /\ ToBigInt(v).ok /\ DecodeWord(word) = ToBigInt(v).v

\* a positive integer given as a string, a bigint or a safe number
IsPositiveInteger(v) ==
    /\ v.t \in {"string", "number", "bigint"}
    /\ ToBigInt(v).ok
    /\ ~BigLeqZero(ToBigInt(v).v)
    /\ v.t = "number" => IsSafeMag(v.s)

\* an address ethers.getAddress accepts, written with "0x"
IsValidHexAddress(v) == IsHexAddressString(v) /\ IsValidAddress(v)

IsValidBridgeInput(a) ==
    /\ IsPositiveInteger(a.destChainId)
    /\ IsValidHexAddress(a.tokenAddress)
    /\ IsPositiveInteger(a.amountWei)
    /\ IsPositiveInteger(a.feeOrGas)
    /\ IsHexAddressString(a.extraString)

\* "0x7ae4a8ff", then the words of the chain id, of 160, of the token, of
\* the amount and of the fee, then at byte 160 the extra string as length
\* word and padded data
IsBridgeLayout(calldata, a) ==
    /\ SubSeq(calldata, 1, 10) = <<48, 120, 55, 97, 101, 52, 97, 56, 102, 102>>
    /\ IsUintWord(HeadWord(calldata, 1), a.destChainId)
    /\ DecodeWord(HeadWord(calldata, 2)) = IntToBig(5 * 32)
    /\ IsHexAddressString(a.tokenAddress) => IsAddressWord(HeadWord(calldata, 3), a.tokenAddress)
    /\ IsUintWord(HeadWord(calldata, 4), a.amountWei)
    /\ IsUintWord(HeadWord(calldata, 5), a.feeOrGas)
    /\ IsLengthAndData(FieldAt(calldata, 160), Utf8Reference(a.extraString.s))
    /\ ByteCount(calldata) =
          4 + (5 * 32) + 32 + (32 * ((Len(Utf8Reference(a.extraString.s)) + 31) \div 32))

\* C13: for every valid input, buildBridgeCalldata returns the selector, the
\* five head words (chain id, 160, token, amount, fee) and the tail of the
\* extra string, the offset 160 being the position of its length word, in
\* 4 + 5*32 + 32 + roundUp32(byteLength(extraString)) bytes; whatever it
\* returns has that layout.
C13_BridgeLayout ==
    (fn = "buildBridgeCalldata") =>
        /\ IsValidBridgeInput(args) => ret.ok
        /\ ret.ok => IsBridgeLayout(ret.v, args)

\* a valid bridge with the amount given as a bigint
C13_Witness ==
    /\ fn = "buildBridgeCalldata"
    /\ IsValidBridgeInput(args)
    /\ args.amountWei.t = "bigint"
    /\ args.destChainId = JsNum(137)
    /\ ret.ok
    /\ ByteCount(ret.v) = 260

----------------------------------------------------------------------------
(* Properties of the delegation builders *)

\* the denom encoded when the argument is the given one
DenomBytes(denom) ==
    IF denom.t = "undefined" THEN <<97, 104, 101, 108, 105, 111, 115>>
    ELSE Utf8Reference(denom.s)

IsValidDelegationInput(a) ==
    /\ IsValidHexAddress(a.delegator)
    /\ IsValidHexAddress(a.validator)
    /\ IsPositiveInteger(a.amount) /\ InUint256(ToBigInt(a.amount).v)
    /\ a.denom.t = "undefined" \/ (a.denom.t = "string" /\ IsWellFormed(a.denom.s))

\* "0xf5e56040", then the words of the delegator, of the validator, of the
\* amount and of 128, then at byte 128 the denom as length word and padded data
IsDelegationLayout(calldata, a) ==
    /\ SubSeq(calldata, 1, 10) = <<48, 120, 102, 53, 101, 53, 54, 48, 52, 48>>
    /\ IsHexAddressString(a.delegator) => IsAddressWord(HeadWord(calldata, 1), a.delegator)
    /\ IsHexAddressString(a.validator) => IsAddressWord(HeadWord(calldata, 2), a.validator)
    /\ IsUintWord(HeadWord(calldata, 3), a.amount)
    /\ DecodeWord(HeadWord(calldata, 4)) = IntToBig(4 * 32)
    /\ IsLengthAndData(FieldAt(calldata, 128), DenomBytes(a.denom))

\* C14: buildDelegationCalldata returns selector f5e56040, the four head
\* words encodeAddress(delegator), encodeAddress(validator),
\* encodeUint(amount), encodeUint(128), then the length word and the padded
\* data of the denom; 128 is the position of the denom length word, and
\* the amount word holds the amount as given.
C14_DelegationLayout ==
    (fn = "buildDelegationCalldata") =>
        /\ IsValidDelegationInput(args) => ret.ok
        /\ ret.ok => IsDelegationLayout(ret.v, args)

\* a valid delegation with a denom of two-byte characters
C14_Witness ==
    /\ fn = "buildDelegationCalldata"
    /\ IsValidDelegationInput(args)
    /\ args.denom = JsStr(Rep(233, 17))
    /\ args.amount = JsStr(DecString(OneEther))
    /\ ret.ok

\* the length word 7 and the padded data of "ahelios"
AheliosField ==
    [lengthHex |-> Rep(48, 63) \o <<55>>,
     paddedData |-> <<54, 49, 54, 56, 54, 53, 54, 99, 54, 57, 54, 102, 55, 51>> \o Rep(48, 50)]

\* "ahelios"
Ahelios == JsStr(<<97, 104, 101, 108, 105, 111, 115>>)

\* C15: without a denom, buildDelegationCalldata(delegator, validator,
\* amount) returns what it returns with the denom "ahelios", and the
\* transaction DelegationService.delegate sends carries that same calldata.
C15_DefaultDenom ==
    /\ (fn = "buildDelegationCalldata" /\ args.denom.t = "undefined") =>
          /\ ret = BuildDelegationCalldata(args.delegator, args.validator, args.amount, Ahelios)
          /\ ret.ok => FieldAt(ret.v, 128) = AheliosField
    /\ (fn = "delegate" /\ args.denom.t = "undefined" /\ sentTx # None) =>
          /\ Ok(sentTx.data) =
                BuildDelegationCalldata(delegationWallet, args.validator, args.amount, Ahelios)
          /\ FieldAt(sentTx.data, 128) = AheliosField

\* a delegation without a denom was sent and confirmed
C15_Witness ==
    /\ fn = "delegate"
    /\ args.denom.t = "undefined"
    /\ sentTx # None
    /\ ret.ok
    /\ ret.v.success

\* the argument is missing
IsMissing(v) == v.t = "undefined"

\* C16: the delegation and claim builders raise an error and return no
\* calldata when the amount is zero or negative or a required field is
\* missing.
C16_RejectsNonPositiveAmount ==
    /\ (/\ fn = "buildDelegationCalldata"
        /\ \/ ZeroOrNegative(args.amount)
           \/ IsMissing(args.delegator) \/ IsMissing(args.validator) \/ IsMissing(args.amount))
          => ~ret.ok
    /\ (/\ fn = "buildClaimCalldata"
        /\ \/ ZeroOrNegative(args.claimAmountOrId)
           \/ IsMissing(args.delegator) \/ IsMissing(args.claimAmountOrId))
          => ~ret.ok

\* an integer that is not negative, as a string, a bigint or a safe number
IsUnsignedInteger(v) ==
    /\ v.t \in {"string", "number", "bigint"}
    /\ ToBigInt(v).ok
    /\ ~BigLtZero(ToBigInt(v).v)
    /\ v.t = "number" => IsSafeMag(v.s)

----------------------------------------------------------------------------
(* Properties of the governance builders *)

IsValidVoteInput(a) ==
    /\ IsValidHexAddress(a.voter)
    /\ IsUnsignedInteger(a.proposalId) /\ InUint256(ToBigInt(a.proposalId).v)
    /\ a.support.t = "boolean"
    /\ a.reason.t = "string" /\ IsWellFormed(a.reason.s)

\* the word of the number 1 or 0
BoolWord(b) == Rep(48, 63) \o <<IF b THEN 49 ELSE 48>>

\* C18: buildVoteCalldata returns selector 9ec4d363, the four head words
\* encodeAddress(voter), encodeUint(proposalId), the support word (1 for
\* true, 0 for false, the word encodeUint(support ? 1 : 0)) and
\* encodeUint(128), then the length word and padded data of the reason at
\* byte 128; an empty reason is valid and gives a zero length word with no
\* data after it, 4 + 5*32 bytes.
C18_VoteLayout ==
    (fn = "buildVoteCalldata") =>
        /\ IsValidVoteInput(args) => ret.ok
        /\ ret.ok =>
              /\ SubSeq(ret.v, 1, 10) = <<48, 120, 57, 101, 99, 52, 100, 51, 54, 51>>
              /\ IsHexAddressString(args.voter) =>
                    IsAddressWord(HeadWord(ret.v, 1), args.voter)
              /\ IsUintWord(HeadWord(ret.v, 2), args.proposalId)
              /\ HeadWord(ret.v, 3) = BoolWord(Truthy(args.support))
              /\ Ok(HeadWord(ret.v, 3)) =
                    EncodeUint(JsNum(IF Truthy(args.support) THEN 1 ELSE 0))
              /\ args.support = JsBool(TRUE) => HeadWord(ret.v, 3) = BoolWord(TRUE)
              /\ args.support = JsBool(FALSE) => HeadWord(ret.v, 3) = BoolWord(FALSE)
              /\ DecodeWord(HeadWord(ret.v, 4)) = IntToBig(4 * 32)
              /\ IsLengthAndData(FieldAt(ret.v, 128), Utf8Reference(args.reason.s))
              /\ args.reason.s = << >> =>
                    /\ ByteCount(ret.v) = 4 + (5 * 32)
                    /\ FieldAt(ret.v, 128) = [lengthHex |-> Rep(48, 64), paddedData |-> << >>]

\* a vote against, without a reason
C18_Witness ==
    /\ fn = "buildVoteCalldata"
    /\ IsValidVoteInput(args)
    /\ args.support = JsBool(FALSE)
    /\ args.reason.s = << >>
    /\ ret.ok

\* the string field of the given bytes begins at the given byte position
IsFieldAt(calldata, position, bytes) ==
    /\ IsWord(WordAt(calldata, position))
    /\ DecodeWord(WordAt(calldata, position)) = IntToBig(Len(bytes))
    /\ IsRightPadded(SubSeq(calldata, 10 + (2 * (position + 32)) + 1,
                            10 + (2 * (position + 32 + RoundUpTo32(Len(bytes))))), bytes)

\* the bytes a string field takes: its length word and its padded data
FieldSize(bytes) == 32 + RoundUpTo32(Len(bytes))

\* the bytes of the three fields of the call
TitleBytes == Utf8Reference(args.title.s)
DescriptionBytes == Utf8Reference(args.description.s)
MessagesBytes == Utf8Reference(JsonStringify(args.messages))

\* C19: the head of the calldata of buildCreateProposalCalldata is five
\* words in the order titleOffset (160), descriptionOffset, messagesOffset,
\* encodeUint(deposit), proposer; the proposer word is the zero address;
\* the tail follows in the order title, description, messages, each as
\* length word and padded data.
C19_HeadAndTailOrder ==
    CreateProposalReturned =>
        /\ SubSeq(ret.v, 1, 10) = <<48, 120, 99, 98, 48, 100, 100, 100, 102, 101>>
        /\ HeadOffset(ret.v, 1) = IntToBig(160)
        /\ IsWord(HeadWord(ret.v, 2))
        /\ HeadOffset(ret.v, 2) = IntToBig(DescriptionOffsetOf(args.title))
        /\ IsWord(HeadWord(ret.v, 3))
        /\ HeadOffset(ret.v, 3) = IntToBig(MessagesOffsetOf(args.title, args.description))
        /\ IsUintWord(HeadWord(ret.v, 4), args.deposit)
        /\ HeadWord(ret.v, 5) = Rep(48, 64)
        /\ IsFieldAt(ret.v, 160, TitleBytes)
        /\ IsFieldAt(ret.v, 160 + FieldSize(TitleBytes), DescriptionBytes)
        /\ IsFieldAt(ret.v, 160 + FieldSize(TitleBytes) + FieldSize(DescriptionBytes),
                     MessagesBytes)
        /\ ByteCount(ret.v) = 4 + 160 + FieldSize(TitleBytes) + FieldSize(DescriptionBytes)
                                 + FieldSize(MessagesBytes)

\* a proposal with a title and a description of two-byte characters and a message
C19_Witness ==
    /\ CreateProposalReturned
    /\ args.title = JsStr(Rep(233, 20))
    /\ args.description = JsStr(Rep(233, 17))
    /\ args.messages = <<TimeoutMessage>>

\* C20: encodeMessagesArray(m) is encodeString(JSON.stringify(m)): the
\* length word is the UTF-8 byte length of the JSON and the data is those
\* bytes right-padded with zeros to a multiple of 32 bytes.
C20_MessagesAsJsonString ==
    (fn = "encodeMessagesArray") =>
        /\ ret.ok
        /\ ret = EncodeString(JsStr(JsonStringify(args)))
        /\ IsWellFormed(JsonStringify(args))
        /\ IsLengthAndData(ret.v, Utf8Reference(JsonStringify(args)))

\* a message whose JSON has characters of three bytes of UTF-8
C20_Witness ==
    /\ fn = "encodeMessagesArray"
    /\ args = <<Note(JsStr(Rep(8364, 9)))>>
    /\ ret.ok
    /\ ret.v.lengthHex = Rep(48, 62) \o <<50, 56>>

----------------------------------------------------------------------------
(* Properties of all builders *)

SelectorOf(builder) ==
    CASE builder = "buildBridgeCalldata" -> <<55, 97, 101, 52, 97, 56, 102, 102>>
      [] builder = "buildDelegationCalldata" -> <<102, 53, 101, 53, 54, 48, 52, 48>>
      [] builder = "buildClaimCalldata" -> <<50, 101, 102, 101, 56, 97, 53, 102>>
      [] builder = "buildVoteCalldata" -> <<57, 101, 99, 52, 100, 51, 54, 51>>
      [] builder = "buildCreateProposalCalldata" -> <<99, 98, 48, 100, 100, 100, 102, 101>>

Builders ==
    {"buildBridgeCalldata", "buildDelegationCalldata", "buildClaimCalldata",
     "buildVoteCalldata", "buildCreateProposalCalldata"}

\* C22: every successful builder call returns "0x", once, then the literal
\* selector of the builder, then a parameter area of a multiple of 32 bytes.
C22_PrefixSelectorWords ==
    (fn \in Builders /\ ret.ok) =>
        /\ SubSeq(ret.v, 1, 2) = <<48, 120>>
        /\ SubSeq(ret.v, 3, 10) = SelectorOf(fn)
        /\ AllChars(Slice(ret.v, 2), LAMBDA c : IsDigit(c) \/ IsLowerHex(c))
        /\ Len(ret.v) > 10
        /\ (Len(ret.v) - 10) % 64 = 0

\* a vote with a reason that does not fill its last word was built
C22_Witness ==
    /\ fn = "buildVoteCalldata"
    /\ ret.ok
    /\ args.reason = Str(<<"y", "e", "s">>)

----------------------------------------------------------------------------
(* Properties of the automation *)

RetryEnded == retry.pc \in {"returned", "thrown"}

\* what holds of a call retry(fn, maxAttempts, delay) with maxAttempts >= 1
RetryBounded ==
    /\ retry.invocations <= retry.maxAttempts
    /\ retry.invocations = retry.attempt
    /\ retry.pc = "returned" =>
          /\ retry.outcome.ok
          /\ retry.outcome.v \in FnValues
          /\ Len(retry.errors) = retry.invocations - 1
    /\ retry.pc = "thrown" =>
          /\ retry.invocations = retry.maxAttempts
          /\ Len(retry.errors) = retry.maxAttempts
          /\ retry.outcome = Err(retry.errors[retry.maxAttempts])
    /\ retry.pc = "sleeping" => retry.invocations < retry.maxAttempts
    /\ retry.pc = "sleeping" => retry.sleeps = Len(retry.errors)
    /\ RetryEnded => retry.sleeps = retry.invocations - 1
    /\ retry.slept = retry.sleeps * retry.delay

\* C24: retry(fn, maxAttempts, delay) with maxAttempts >= 1 invokes fn at
\* most maxAttempts times, returns the result of the first invocation that
\* does not throw, sleeps only between two attempts, throws the error of
\* the last invocation after maxAttempts failed ones, and terminates when
\* fn terminates.
C24_RetryBoundedAndTerminates ==
    /\ [](retry.maxAttempts >= 1 => RetryBounded)
    /\ (retry.pc \in {"calling", "sleeping"}) ~> RetryEnded

\* retry throws after four failed invocations and three sleeps
C24_Witness ==
    /\ retry.pc = "thrown"
    /\ retry.maxAttempts = 4
    /\ retry.errors = <<"error1", "error2", "error1", "error2">>
    /\ retry.sleeps = 3
    /\ retry.outcome = Err("error2")

\* C25: one call of HeliosMain.bridge, and one call of
\* HeliosMain.delegateToRandomValidator, sends at most one transaction:
\* after wallet.sendTransaction was called the call returns, with
\* { success: false } when the transaction failed, whatever the limit of
\* the retries.
C25_AtMostOneSubmission ==
    /\ nested.sends <= 1
    /\ nested.sends = 1 =>
          /\ nested.pc = "returned"
          /\ nested.outcome \in {Failed, Succeeded}

\* the third retry of the bridge sends in its last attempt, after the two
\* outer retries have used theirs, and the transaction fails
C25_Witness ==
    /\ nested.kind = "bridge"
    /\ nested.limit = 3
    /\ nested.attempts = <<3, 3, 3>>
    /\ nested.sends = 1
    /\ nested.outcome = Failed

\* the state and the parameters in which bridgeTokens may send
MaySend ==
    /\ isInitialized
    /\ wallet
    /\ ValidateBridgeParams(args.destChainId, args.tokenAddress, args.amountWei,
                            args.feeOrGas, args.extraString).ok
    /\ PropertyKey(args.destChainId) \in SupportedChains

\* C26: bridgeTokens hands a transaction to the wallet only when the
\* service is initialized, a wallet is connected, validateBridgeParams
\* accepts the parameters and the destination chain is a key of the
\* supported chains; otherwise it sends nothing and throws (not initialized,
\* no wallet) or returns { success: false }.
C26_SendsOnlyWhenValid ==
    fn = "bridgeTokens" =>
        /\ sentTx # None => MaySend
        /\ ~MaySend =>
              /\ sentTx = None
              /\ IF isInitialized /\ wallet
                 THEN ret.ok /\ ret.v.success = FALSE
                 ELSE ret = Err(IF isInitialized THEN "Wallet not connected"
                                ELSE "Bridge Service not initialized")

\* a transaction for Polygon was sent and confirmed, or the chain
\* "toString" passed the validation and the chain test and nothing was sent
C26_Witness ==
    /\ fn = "bridgeTokens"
    /\ \/ /\ args.destChainId = JsNum(137)
          /\ sentTx # None
          /\ sentTx.to = BridgeContract
          /\ ret.v.success
       \/ /\ args.destChainId = Str(<<"t", "o", "S", "t", "r", "i", "n", "g">>)
          /\ ValidateBridgeParams(args.destChainId, args.tokenAddress, args.amountWei,
                                  args.feeOrGas, args.extraString).ok
          /\ isInitialized /\ wallet
          /\ sentTx = None
          /\ ret.ok /\ ~ret.v.success

\* C27: executeBridge sends the BRIDGE success notification only when the
\* bridge succeeded: a result with success = false is followed by the
\* failure notification.
C27_SuccessNotificationOnlyOnSuccess ==
    \A i \in DOMAIN executor.notified :
        /\ executor.notified[i].success =>
              /\ executor.result \notin {None, JsUndefined}
              /\ executor.result.success
        /\ (executor.result \notin {None, JsUndefined} /\ ~executor.result.success) =>
              ~executor.notified[i].success

\* C28: executeCycle never throws: whether the cycle function returns or
\* throws, cycleCount grows by one and the object returned has the new
\* cycleCount as cycleNumber and success = true exactly when the cycle
\* function returned; after n calls cycleCount is n.
C28_ExecuteCycleNeverThrows ==
    /\ main.cycleCount = main.calls
    /\ main.executed # None =>
          /\ main.executed.outcome.ok
          /\ main.executed.outcome.v.cycleNumber = main.cycleCount
          /\ main.executed.outcome.v.success = main.executed.returned

\* C29: when executeCycle is called again, a waitForCooldown has completed
\* since the last executeCycle ended, on every path; the loop is left only
\* by process.exit.
C29_CooldownBetweenCycles ==
    /\ (main.pc = "executing" /\ main.calls > 1) => main.cooldowns >= 1
    /\ (main.pc = "start" /\ main.calls > 0) => main.cooldowns >= 1
    /\ main.pc = "exited" <=> main.exit = <<1>>

\* the second cycle runs, one waitForCooldown after the first one ended
C29_Witness ==
    /\ main.pc = "executing"
    /\ main.calls = 2
    /\ main.cooldowns = 1

\* waitAndVote with a wallet is at an await
VotingRuns == voting.connected /\ voting.pc \in {"polling", "sleeping", "voting"}

\* what has happened in a call of waitAndVote with a wallet
VotingSafe ==
    /\ voting.pc # "thrown"
    /\ voting.votes <= 1
    /\ voting.pc = "voting" => voting.votes = 0
    /\ voting.votes = 1 => voting.pc = "returned" /\ voting.found
    /\ voting.pc = "returned" =>
          /\ voting.outcome.ok
          /\ voting.found => voting.outcome # TimeoutResult
          /\ ~voting.found =>
                /\ voting.outcome = TimeoutResult
                /\ voting.elapsed >= voting.timeout
                /\ voting.votes = 0

============================================================================
